---- MODULE Spec2Model ----
(***************************************************************************)
(* State-machine model of the group-session core of matrix-sdk-crypto:     *)
(*   - OutboundGroupSession  (olm/group_sessions/outbound.rs)              *)
(*   - InboundGroupSession   (olm/group_sessions/inbound.rs)               *)
(* Durations and instants are counted in milliseconds.                     *)
(***************************************************************************)
EXTENDS Integers, Sequences, FiniteSets, TLC

VARIABLES
    session,    \* the OutboundGroupSession (fields of the struct)
    now,        \* the monotonic clock read by Instant::now()/elapsed()
    next_uuid,  \* number of request ids (Uuid::new_v4) handed out so far
    requested,  \* history: every (user, device) ever put into a request
    ret,        \* the last call made on a session and what it returned
    pc,         \* position of each concurrently running encrypt call
    mutex,      \* holder of the session's inner Mutex (0 = free)
    acquired,   \* history: the calls in the order they acquired the mutex
    used,       \* history: message indices used by the ratchet, in order
    igs,        \* the InboundGroupSession (fields of the struct)
    store,      \* the crypto store: device records and persisted Olm sessions
    users_for_key_claim,          \* SessionManager: user -> devices to claim keys for
    wedged_devices,               \* SessionManager: user -> devices marked as wedged
    outgoing_to_device_requests,  \* SessionManager: request id -> to-device request
    key_request_machine,          \* the gossip machine's key shares waiting for a session
    call,       \* the receive_keys_claim_response call in progress, and its history
    timeline,   \* the room's timeline: the encrypted events sent, with what was encrypted
    shared_at,  \* number of events sent before the inbound session's key was taken
    input,      \* the argument the pure helper functions are applied to
    attachment, \* an attachment on its way through encryptor and decryptor
    frames      \* the calls in progress on the outbound session, other than encrypt: what each holds

vars == <<session, now, next_uuid, requested, ret, pc, mutex, acquired, used, igs, store, users_for_key_claim, wedged_devices, outgoing_to_device_requests, key_request_machine, call, timeline, shared_at, input, attachment, frames>>

sm_vars == <<store, users_for_key_claim, wedged_devices, outgoing_to_device_requests, key_request_machine, call>>

room_vars == <<timeline, shared_at, input, attachment, frames>>

outbound_env == <<now, next_uuid, requested>>
conc_vars == <<pc, mutex, acquired, used>>

----------------------------------------------------------------------------
\* Bounds of the model.

\* encrypt calls explored on one outbound session
MaxMsgs == 3
\* to-device requests (request ids) handed out for one outbound session
MaxRequests == 2
\* clock ticks explored
MaxTicks == 3
\* concurrently running encrypt calls
MaxThreads == 2
\* highest Megolm message index of the events and session keys explored
MaxIndex == 1
\* to-device requests the session manager queues
MaxOutgoing == 2
\* Olm sessions created over a run
MaxSessions == 3

----------------------------------------------------------------------------
\* Program constants.

ROTATION_PERIOD == 604800000
ROTATION_MESSAGES == 100
\* the clamp of expired(), in seconds
MIN_ROTATION_SECS == 3600
DurationFromSecs(s) == s * 1000

Max(a, b) == IF a >= b THEN a ELSE b

\* one step of the clock: half an hour
TickMs == 30 * 60 * 1000

----------------------------------------------------------------------------
\* Values the operations are called with.

MEGOLM_V1 == "m.megolm.v1.aes-sha2"
OLM_V1 == "m.olm.v1.curve25519-aes-sha2"

RoomA == "!a:example.org"
RoomB == "!b:example.org"

\* (user, device) pairs a room key can be sent to
Recipients == {<<"@bob:x", "B1">>, <<"@bob:x", "B2">>, <<"@carol:x", "C1">>}

\* the curve25519 key a device currently has
CurveKey(user, device) == "curve:" \o device

\* the recipients of one to-device request: one device, two devices of one
\* user, devices of two users
RecipientSets == {{<<"@bob:x", "B1">>}, {<<"@bob:x", "B1">>, <<"@bob:x", "B2">>}, {<<"@bob:x", "B2">>, <<"@carol:x", "C1">>}}

RequestIds == 1..MaxRequests

Threads == 1..MaxThreads

\* rotation periods (ms) and message limits a room's encryption event can set
RotationPeriods == {0, TickMs, 2 * TickMs, 3 * TickMs, ROTATION_PERIOD}
RotationMsgs == {1, 2, ROTATION_MESSAGES}

ABSENT == "<absent>"

\* a JSON value that is present but is neither a string nor an object
OTHER_JSON == "<number>"
\* Option::None
NONE == "<none>"

\* the JSON value of an event's content: an object with a body and an
\* optional m.relates_to, or no object at all
JsonContent(kind, body, relates_to) == [kind |-> kind, body |-> body, relates_to |-> relates_to]

\* message contents handed to encrypt
Contents == {JsonContent("object", "hello", ABSENT), JsonContent("object", "hello", "$rel")}

\* a JSON text, as the document it spells: kind is "object", "array" (valid
\* JSON that is no object) or "invalid" (no JSON at all); the other fields are
\* the members of the object, ABSENT when the object has no such member
JsonObject(room_id, type, content, sender, event_id, origin_server_ts) == [kind |-> "object", room_id |-> room_id, type |-> type, content |-> content, sender |-> sender, event_id |-> event_id, origin_server_ts |-> origin_server_ts, unsigned |-> ABSENT]

DefaultSettings == [rotation_period |-> ROTATION_PERIOD, rotation_period_msgs |-> ROTATION_MESSAGES]

----------------------------------------------------------------------------
\* ShareInfoSet: user -> device -> ShareInfo, as share_group_session builds
\* it for the devices of one to-device request.

UsersOf(recips) == {r[1] : r \in recips}
DevicesOf(recips, user) == {r[2] : r \in {x \in recips : x[1] = user}}

ShareInfoSet(recips, index) == [u \in UsersOf(recips) |-> [d \in DevicesOf(recips, u) |-> [sender_key |-> CurveKey(u, d), message_index |-> index]]]

\* the (user, device) pairs of a user -> device -> ShareInfo map
PairsOf(map) == {<<u, d>> \in Recipients : u \in DOMAIN map /\ d \in DOMAIN map[u]}

EmptyMap == [x \in {} |-> 0]

----------------------------------------------------------------------------
\* The Olm outbound Megolm session (inner): its ratchet position.

\* OlmOutboundGroupSession::encrypt: the ciphertext carries the session id,
\* the index it was encrypted at and the plaintext; the ratchet advances.
OlmCiphertext(inner, plaintext) == [session_id |-> inner.session_id, index |-> inner.index, plaintext |-> plaintext]

\* (the index is a u32; MaxMsgs keeps it far from wrapping)
OlmAdvance(inner) == [inner EXCEPT !.index = inner.index + 1]

----------------------------------------------------------------------------
\* OutboundGroupSession

\* OutboundGroupSession::new
NewOutboundGroupSession(room_id, settings, time) == [inner |-> [session_id |-> "sid1", index |-> 0], session_id |-> "sid1", room_id |-> room_id, creation_time |-> time, message_count |-> 0, shared |-> FALSE, invalidated |-> FALSE, settings |-> settings, shared_with_set |-> EmptyMap, to_share_with_set |-> EmptyMap]

\* DashMap::insert
MapInsert(map, k, v) == [x \in DOMAIN map \cup {k} |-> IF x = k THEN v ELSE map[x]]

\* DashMap::remove
MapRemove(map, k) == [x \in DOMAIN map \ {k} |-> map[x]]

\* the merge replacing a user's device map instead of extending it
MergeShareInfo_Replace(with, r) == [u \in DOMAIN with \cup DOMAIN r |-> IF u \in DOMAIN r THEN r[u] ELSE with[u]]

\* shared_with_set.entry(user).or_insert_with(DashMap::new).extend(info),
\* for every user of the request's ShareInfoSet
MergeShareInfo(with, r) == [u \in DOMAIN with \cup DOMAIN r |-> IF u \notin DOMAIN r THEN with[u] ELSE IF u \notin DOMAIN with THEN r[u] ELSE [d \in DOMAIN with[u] \cup DOMAIN r[u] |-> IF d \in DOMAIN r[u] THEN r[u][d] ELSE with[u][d]]]

\* OutboundGroupSession::mark_as_shared, on the session value
MarkedShared(s) == [s EXCEPT !.shared = TRUE]

\* mark_request_as_sent marking the session as shared without looking at the
\* pending map
MarkedSent_NoEmptyCheck(s, request_id) == IF request_id \in DOMAIN s.to_share_with_set THEN MarkedShared([s EXCEPT !.to_share_with_set = MapRemove(s.to_share_with_set, request_id), !.shared_with_set = MergeShareInfo(s.shared_with_set, s.to_share_with_set[request_id])]) ELSE s

\* mark_request_as_sent treating an unknown request id as an acknowledgement
MarkedSent_NotFoundShares(s, request_id) == IF request_id \in DOMAIN s.to_share_with_set THEN LET r == s.to_share_with_set[request_id] t == [s EXCEPT !.to_share_with_set = MapRemove(s.to_share_with_set, request_id), !.shared_with_set = MergeShareInfo(s.shared_with_set, r)] IN IF DOMAIN t.to_share_with_set = {} THEN MarkedShared(t) ELSE t ELSE IF DOMAIN s.to_share_with_set = {} THEN MarkedShared(s) ELSE s

\* mark_request_as_sent storing into the shared flag whether the pending map
\* is empty
MarkedSent_StoresEmptiness(s, request_id) == IF request_id \in DOMAIN s.to_share_with_set THEN LET r == s.to_share_with_set[request_id] t == [s EXCEPT !.to_share_with_set = MapRemove(s.to_share_with_set, request_id), !.shared_with_set = MergeShareInfo(s.shared_with_set, r)] IN [t EXCEPT !.shared = (DOMAIN t.to_share_with_set = {})] ELSE s

\* the session after mark_request_as_sent(request_id)
MarkedSent(s, request_id) == IF request_id \in DOMAIN s.to_share_with_set THEN LET r == s.to_share_with_set[request_id] t == [s EXCEPT !.to_share_with_set = MapRemove(s.to_share_with_set, request_id), !.shared_with_set = MergeShareInfo(s.shared_with_set, r)] IN IF DOMAIN t.to_share_with_set = {} THEN MarkedShared(t) ELSE t ELSE s

\* encrypt_helper without the fetch_add on the counter
Encrypted_NoCount(s) == [s EXCEPT !.inner = OlmAdvance(s.inner)]

\* the session after encrypt_helper: fetch_add(1) on the AtomicU64 counter (which
\* wraps only at 2^64, out of reach of any run) and one step of the ratchet
Encrypted(s) == [s EXCEPT !.message_count = s.message_count + 1, !.inner = OlmAdvance(s.inner)]

\* the plaintext encrypt builds: json!({content, room_id, type}).to_string()
Plaintext(s, content, event_type) == JsonObject(s.room_id, event_type, content, ABSENT, ABSENT, ABSENT)

\* the EncryptedEventContent encrypt returns: the Megolm scheme with the
\* ciphertext and the session id, and the content's relation copied outside
EncryptedEventContent(s, content, event_type) == [scheme |-> MEGOLM_V1, ciphertext |-> OlmCiphertext(s.inner, Plaintext(s, content, event_type)), session_id |-> s.session_id, relates_to |-> content.relates_to]

\* expired() comparing the age with the configured period alone
expired_NoClamp(s, time) == s.message_count >= s.settings.rotation_period_msgs \/ time - s.creation_time >= s.settings.rotation_period

\* OutboundGroupSession::expired, at clock reading `time`
expired(s, time) == s.message_count >= s.settings.rotation_period_msgs \/ time - s.creation_time >= Max(s.settings.rotation_period, DurationFromSecs(MIN_ROTATION_SECS))

\* OutboundGroupSession::pickle: the PickledOutboundGroupSession; the pickle
\* string of the Olm session is modelled by the ratchet state it encodes
Pickle(s) == [pickle |-> s.inner, room_id |-> s.room_id, settings |-> s.settings, creation_time |-> s.creation_time, message_count |-> s.message_count, shared |-> s.shared, invalidated |-> s.invalidated, shared_with_set |-> s.shared_with_set, requests |-> s.to_share_with_set]

\* OutboundGroupSession::from_pickle
FromPickle(p) == [inner |-> p.pickle, session_id |-> p.pickle.session_id, room_id |-> p.room_id, creation_time |-> p.creation_time, message_count |-> p.message_count, shared |-> p.shared, invalidated |-> p.invalidated, settings |-> p.settings, shared_with_set |-> p.shared_with_set, to_share_with_set |-> p.requests]

----------------------------------------------------------------------------
\* InboundGroupSession

\* the Olm inbound Megolm session made from a session key: it decrypts the
\* messages of that session from the key's index on, and keeps next to that
\* initial ratchet the ratchet of the latest message it decrypted
OlmInboundGroupSession(session_key) == [session_id |-> session_key.session_id, first_known_index |-> session_key.index, latest_index |-> session_key.index]

\* OlmInboundGroupSession::decrypt: the plaintext and the message index, or an
\* error for a message of another session or from before the first known index
OlmDecrypt(inner, ciphertext) == IF ciphertext.session_id = inner.session_id /\ ciphertext.index >= inner.first_known_index THEN [ok |-> TRUE, plaintext |-> ciphertext.plaintext, index |-> ciphertext.index] ELSE [ok |-> FALSE, plaintext |-> NONE, index |-> 0]

\* the Olm session after decrypt: a message beyond the latest ratchet moves
\* the latest ratchet forward, the initial ratchet stays
OlmDecrypted(inner, ciphertext) == IF OlmDecrypt(inner, ciphertext).ok /\ ciphertext.index > inner.latest_index THEN [inner EXCEPT !.latest_index = ciphertext.index] ELSE inner

\* InboundGroupSession::new
NewInboundGroupSession(sender_key, signing_key, room_id, session_key) == [inner |-> OlmInboundGroupSession(session_key), session_id |-> session_key.session_id, first_known_index |-> session_key.index, sender_key |-> sender_key, signing_keys |-> signing_key, room_id |-> room_id, forwarding_chains |-> <<>>, imported |-> FALSE, backed_up |-> FALSE]

\* InboundGroupSession::pickle
IgsPickle(s) == [pickle |-> s.inner, sender_key |-> s.sender_key, signing_key |-> s.signing_keys, room_id |-> s.room_id, forwarding_chains |-> s.forwarding_chains, imported |-> s.imported, backed_up |-> s.backed_up]

\* from_pickle taking the first known index from the latest ratchet
IgsFromPickle_Latest(p) == [inner |-> p.pickle, session_id |-> p.pickle.session_id, first_known_index |-> p.pickle.latest_index, sender_key |-> p.sender_key, signing_keys |-> p.signing_key, room_id |-> p.room_id, forwarding_chains |-> p.forwarding_chains, imported |-> p.imported, backed_up |-> p.backed_up]

\* InboundGroupSession::from_pickle
IgsFromPickle(p) == [inner |-> p.pickle, session_id |-> p.pickle.session_id, first_known_index |-> p.pickle.first_known_index, sender_key |-> p.sender_key, signing_keys |-> p.signing_key, room_id |-> p.room_id, forwarding_chains |-> p.forwarding_chains, imported |-> p.imported, backed_up |-> p.backed_up]

\* InboundGroupSession::export_at_index: the ExportedRoomKey, its session key
\* exported at max(first_known_index, message_index)
ExportAtIndex(s, message_index) == [algorithm |-> MEGOLM_V1, room_id |-> s.room_id, sender_key |-> s.sender_key, session_id |-> s.session_id, forwarding_curve25519_key_chain |-> s.forwarding_chains, sender_claimed_keys |-> s.signing_keys, session_key |-> [session_id |-> s.inner.session_id, index |-> Max(s.first_known_index, message_index)]]

\* InboundGroupSession::export
Export(s) == ExportAtIndex(s, s.first_known_index)

\* room id strings RoomId::try_from accepts
ValidRoomIds == {RoomA, RoomB}

\* Value::as_str: only a JSON string has one
AsStr(v) == IF v \in {ABSENT, OTHER_JSON} THEN NONE ELSE v

\* RoomId::try_from(r).ok()
RoomIdTryFrom(r) == IF r \in ValidRoomIds THEN r ELSE NONE

\* decrypted_object.get("room_id").and_then(|r| r.as_str().and_then(|r| RoomId::try_from(r).ok()))
PlaintextRoomId(obj) == IF AsStr(obj.room_id) = NONE THEN NONE ELSE RoomIdTryFrom(AsStr(obj.room_id))

\* the envelope's fields inserted only where the plaintext declares none
InjectEnvelope_IfAbsent(obj, event) == [obj EXCEPT !.sender = IF @ = ABSENT THEN event.sender ELSE @, !.event_id = IF @ = ABSENT THEN event.event_id ELSE @, !.origin_server_ts = IF @ = ABSENT THEN event.origin_server_ts ELSE @]

\* the three inserts of sender, event_id and origin_server_ts from the outer
\* event; Map::insert replaces a member the plaintext declared itself
InjectEnvelope(obj, event) == [obj EXCEPT !.sender = event.sender, !.event_id = event.event_id, !.origin_server_ts = event.origin_server_ts]

\* a room check that lets a plaintext without a usable room_id through
MismatchedRoom_NoneOk(s, room_id) == room_id # NONE /\ room_id # s.room_id

\* room_id.as_ref() != Some(self.room_id())
MismatchedRoom(s, room_id) == room_id # s.room_id

\* the unsigned member is replaced by the outer event's
InsertUnsigned(obj, event) == [obj EXCEPT !.unsigned = event.unsigned]

\* the outer m.relates_to is copied into a content object that has none
CopyRelation(obj, event) == IF obj.content.kind = "object" /\ obj.content.relates_to = ABSENT /\ event.relates_to # ABSENT THEN [obj EXCEPT !.content.relates_to = event.relates_to] ELSE obj

DecryptErr(kind) == [ok |-> FALSE, err |-> kind, event |-> NONE, index |-> 0]
DecryptOk(event, index) == [ok |-> TRUE, err |-> NONE, event |-> event, index |-> index]

\* what decrypt returns once the plaintext parsed as a JSON object
DecryptObject(s, event, obj, index) == LET injected == InjectEnvelope(obj, event) IN IF MismatchedRoom(s, PlaintextRoomId(injected)) THEN DecryptErr("MismatchedRoom") ELSE DecryptOk(CopyRelation(InsertUnsigned(injected, event), event), index)

\* decrypt with the room check ahead of the object check
Decrypt_RoomCheckFirst(s, event) == IF event.scheme # MEGOLM_V1 THEN DecryptErr("UnsupportedAlgorithm") ELSE LET d == OlmDecrypt(s.inner, event.ciphertext) IN IF ~d.ok THEN DecryptErr("OlmGroupSessionError") ELSE IF d.plaintext.kind = "invalid" THEN DecryptErr("JsonError") ELSE IF MismatchedRoom(s, PlaintextRoomId(d.plaintext)) THEN DecryptErr("MismatchedRoom") ELSE IF d.plaintext.kind # "object" THEN DecryptErr("NotAnObject") ELSE DecryptObject(s, event, d.plaintext, d.index)

\* InboundGroupSession::decrypt
Decrypt(s, event) == IF event.scheme # MEGOLM_V1 THEN DecryptErr("UnsupportedAlgorithm") ELSE LET d == OlmDecrypt(s.inner, event.ciphertext) IN IF ~d.ok THEN DecryptErr("OlmGroupSessionError") ELSE IF d.plaintext.kind = "invalid" THEN DecryptErr("JsonError") ELSE IF d.plaintext.kind # "object" THEN DecryptErr("NotAnObject") ELSE DecryptObject(s, event, d.plaintext, d.index)

\* the session after decrypt(event): decrypt_helper runs the Olm session on
\* the ciphertext of a Megolm event
Decrypted(s, event) == IF event.scheme # MEGOLM_V1 THEN s ELSE [s EXCEPT !.inner = OlmDecrypted(s.inner, event.ciphertext)]

Ret(op, arg, val) == [op |-> op, arg |-> arg, val |-> val]

----------------------------------------------------------------------------
\* Actions: one per method of OutboundGroupSession.

add_request(recips) ==
    /\ next_uuid < MaxRequests
    /\ LET request_id == next_uuid + 1
       IN /\ session' = [session EXCEPT !.to_share_with_set = MapInsert(session.to_share_with_set, request_id, ShareInfoSet(recips, session.inner.index))]
          /\ next_uuid' = request_id
          /\ requested' = requested \cup recips
          /\ ret' = Ret("add_request", request_id, "ok")
    /\ UNCHANGED <<now, conc_vars, igs, sm_vars, room_vars>>

invalidate_session ==
    /\ session' = [session EXCEPT !.invalidated = TRUE]
    /\ ret' = Ret("invalidate_session", 0, "ok")
    /\ UNCHANGED <<outbound_env, conc_vars, igs, sm_vars, room_vars>>

mark_request_as_sent(request_id) ==
    /\ session' = MarkedSent(session, request_id)
    /\ ret' = Ret("mark_request_as_sent", request_id, IF request_id \in DOMAIN session.to_share_with_set THEN "sent" ELSE "not found")
    /\ UNCHANGED <<outbound_env, conc_vars, igs, sm_vars, room_vars>>

encrypt(content, event_type) ==
    /\ session.message_count < MaxMsgs
    /\ session' = Encrypted(session)
    /\ ret' = Ret("encrypt", content, EncryptedEventContent(session, content, event_type))
    /\ UNCHANGED <<outbound_env, conc_vars, igs, sm_vars, room_vars>>

mark_as_shared ==
    /\ session' = MarkedShared(session)
    /\ ret' = Ret("mark_as_shared", 0, "ok")
    /\ UNCHANGED <<outbound_env, conc_vars, igs, sm_vars, room_vars>>

\* a persistence cycle: pickle, then from_pickle of that pickle
pickle_cycle ==
    /\ session' = FromPickle(Pickle(session))
    /\ ret' = Ret("from_pickle", 0, "ok")
    /\ UNCHANGED <<outbound_env, conc_vars, igs, sm_vars, room_vars>>

\* no receive_keys_claim_response call was made yet
NoCall == [pc |-> "idle", changes |-> <<>>, keyshare |-> {}, created |-> EmptyMap, dummy |-> EmptyMap, saves |-> 0, persisted |-> {}, logged |-> {}, result |-> NONE]

\* SessionManager::new
InitSessionManager ==
    /\ users_for_key_claim = EmptyMap
    /\ wedged_devices = EmptyMap
    /\ outgoing_to_device_requests = EmptyMap
    /\ key_request_machine = [wait_queue |-> {}, incoming |-> {}]
    /\ call = NoCall

\* nothing was sent to the room, and no helper function is being applied
NoInput == <<>>
NoAttachment == <<>>
\* no call is in progress
IdleFrame == [op |-> "idle"]
InitRoom == timeline = <<>> /\ shared_at = 0 /\ input = NoInput /\ attachment = NoAttachment /\ frames = [t \in Threads |-> IdleFrame]

InitInbound == igs = NewInboundGroupSession("curve:A", "ed:A", RoomA, [session_id |-> "sid1", index |-> 0])

InitConc == pc = [t \in Threads |-> "idle"] /\ mutex = 0 /\ acquired = <<>> /\ used = <<>>

Init ==
    /\ session = NewOutboundGroupSession(RoomA, DefaultSettings, 0)
    /\ now = 0
    /\ next_uuid = 0
    /\ requested = {}
    /\ ret = Ret("new", 0, "ok")
    /\ InitConc
    /\ InitInbound
    /\ store = [devices |-> EmptyMap, sessions |-> EmptyMap, next_session |-> 0]
    /\ InitSessionManager
    /\ InitRoom

Next ==
    \/ \E recips \in RecipientSets : add_request(recips)
    \/ invalidate_session
    \/ \E id \in RequestIds : mark_request_as_sent(id)
    \/ \E c \in Contents : encrypt(c, "m.room.message")
    \/ mark_as_shared
    \/ pickle_cycle

Spec == Init /\ [][Next]_vars

----------------------------------------------------------------------------
\* Expiry: sessions created with the settings of a room, ageing and encrypting.

\* the clock advances
Tick ==
    /\ now < MaxTicks * TickMs
    /\ now' = now + TickMs
    /\ ret' = Ret("tick", 0, "ok")
    /\ UNCHANGED <<session, next_uuid, requested, conc_vars, igs, sm_vars, room_vars>>

call_expired ==
    /\ ret' = Ret("expired", 0, expired(session, now))
    /\ UNCHANGED <<session, outbound_env, conc_vars, igs, sm_vars, room_vars>>

InitExpiry ==
    /\ \E period \in RotationPeriods, msgs \in RotationMsgs : session = NewOutboundGroupSession(RoomA, [rotation_period |-> period, rotation_period_msgs |-> msgs], 0)
    /\ now = 0
    /\ next_uuid = 0
    /\ requested = {}
    /\ ret = Ret("new", 0, "ok")
    /\ InitConc
    /\ InitInbound
    /\ store = [devices |-> EmptyMap, sessions |-> EmptyMap, next_session |-> 0]
    /\ InitSessionManager
    /\ InitRoom

NextExpiry ==
    \/ Tick
    \/ call_expired
    \/ \E c \in Contents : encrypt(c, "m.room.message")
    \/ pickle_cycle

SpecExpiry == InitExpiry /\ [][NextExpiry]_vars

----------------------------------------------------------------------------
\* Concurrent encrypt calls on one session: the steps of encrypt_helper.

\* a mutex that lets every caller in
CanLock_Always(m) == TRUE

\* Mutex::lock returns once no other call holds the guard
CanLock(m) == m = 0

InFlight == {t \in Threads : pc[t] # "idle"}

\* encrypt is called: the plaintext is built, the call waits for the mutex
enc_call(t) ==
    /\ pc[t] = "idle"
    /\ session.message_count + Cardinality(InFlight) < MaxMsgs
    /\ pc' = [pc EXCEPT ![t] = "lock"]
    /\ ret' = Ret("encrypt", t, "pending")
    /\ UNCHANGED <<session, outbound_env, mutex, acquired, used, igs, sm_vars, room_vars>>

\* let session = self.inner.lock().await
enc_lock(t) ==
    /\ pc[t] = "lock"
    /\ CanLock(mutex)
    /\ mutex' = t
    /\ acquired' = Append(acquired, t)
    /\ pc' = [pc EXCEPT ![t] = "fetch_add"]
    /\ UNCHANGED <<session, outbound_env, ret, used, igs, sm_vars, room_vars>>

\* self.message_count.fetch_add(1, SeqCst)
enc_fetch_add(t) ==
    /\ pc[t] = "fetch_add"
    /\ session' = [session EXCEPT !.message_count = session.message_count + 1]
    /\ pc' = [pc EXCEPT ![t] = "ratchet"]
    /\ UNCHANGED <<outbound_env, ret, mutex, acquired, used, igs, sm_vars, room_vars>>

\* session.encrypt(&plaintext)
enc_ratchet(t) ==
    /\ pc[t] = "ratchet"
    /\ session' = [session EXCEPT !.inner = OlmAdvance(session.inner)]
    /\ used' = Append(used, [thread |-> t, index |-> session.inner.index])
    /\ pc' = [pc EXCEPT ![t] = "unlock"]
    /\ UNCHANGED <<outbound_env, ret, mutex, acquired, igs, sm_vars, room_vars>>

\* the guard is dropped and encrypt returns the event content
enc_return(t) ==
    /\ pc[t] = "unlock"
    /\ mutex' = IF mutex = t THEN 0 ELSE mutex
    /\ pc' = [pc EXCEPT ![t] = "idle"]
    /\ ret' = Ret("encrypt", t, used[Len(used)].index)
    /\ UNCHANGED <<session, outbound_env, acquired, used, igs, sm_vars, room_vars>>

\* message_index(): lock, read the ratchet's index, unlock
call_message_index ==
    /\ CanLock(mutex)
    /\ ret' = Ret("message_index", 0, session.inner.index)
    /\ UNCHANGED <<session, outbound_env, conc_vars, igs, sm_vars, room_vars>>

NextConc ==
    \/ \E t \in Threads : enc_call(t)
    \/ \E t \in Threads : enc_lock(t)
    \/ \E t \in Threads : enc_fetch_add(t)
    \/ \E t \in Threads : enc_ratchet(t)
    \/ \E t \in Threads : enc_return(t)
    \/ call_message_index

SpecConc == Init /\ [][NextConc]_vars

----------------------------------------------------------------------------
\* Inbound: a session received for some room decrypts timeline events.

\* message indices of the events and session keys explored
MessageIndices == 0..MaxIndex

\* what a sender can put into the plaintext of a Megolm message
JunkPlaintext(kind) == [kind |-> kind, room_id |-> ABSENT, type |-> ABSENT, content |-> JsonContent("absent", ABSENT, ABSENT), sender |-> ABSENT, event_id |-> ABSENT, origin_server_ts |-> ABSENT, unsigned |-> ABSENT]

PlaintextRoomIds == {ABSENT, OTHER_JSON, "a:example.org", RoomA, RoomB}
PlaintextContents == {JsonContent("absent", ABSENT, ABSENT), JsonContent("other", ABSENT, ABSENT), JsonContent("object", "hello", ABSENT), JsonContent("object", "hello", "$rel")}
\* sender, event_id and origin_server_ts as a plaintext may declare them
Declared == {<<ABSENT, ABSENT, ABSENT>>, <<"@mallory:x", ABSENT, ABSENT>>, <<ABSENT, "$forged", "1">>, <<"@mallory:x", "$forged", "1">>}

ObjectPlaintexts == {JsonObject(r, "m.room.message", c, d[1], d[2], d[3]) : r \in PlaintextRoomIds, c \in PlaintextContents, d \in Declared}

\* a timeline event as the server delivers it
SyncEncryptedEvent(scheme, ciphertext, relates_to) == [scheme |-> scheme, ciphertext |-> ciphertext, sender |-> "@alice:x", event_id |-> "$event", origin_server_ts |-> "1000", unsigned |-> "{age}", relates_to |-> relates_to]

Ciphertext(session_id, index, plaintext) == [session_id |-> session_id, index |-> index, plaintext |-> plaintext]

\* events of the session, with every plaintext
SessionEvents == {SyncEncryptedEvent(MEGOLM_V1, Ciphertext("sid1", i, p), rel) : i \in MessageIndices, p \in ObjectPlaintexts \cup {JunkPlaintext("invalid"), JunkPlaintext("array")}, rel \in {ABSENT, "$outer"}}

\* events of another session, and events of another encryption scheme
ForeignEvents == {SyncEncryptedEvent(scheme, Ciphertext(sid, 0, JsonObject(r, "m.room.message", JsonContent("object", "hello", ABSENT), ABSENT, ABSENT, ABSENT)), ABSENT) : scheme \in {MEGOLM_V1, OLM_V1}, sid \in {"sid1", "sid2"}, r \in {RoomA, RoomB}}

Events == SessionEvents \cup ForeignEvents

igs_decrypt(event) ==
    /\ igs' = Decrypted(igs, event)
    /\ ret' = Ret("decrypt", event, Decrypt(igs, event))
    /\ UNCHANGED <<session, outbound_env, conc_vars, sm_vars, room_vars>>

igs_export ==
    /\ ret' = Ret("export", 0, Export(igs))
    /\ UNCHANGED <<session, outbound_env, conc_vars, igs, sm_vars, room_vars>>

igs_export_at_index(message_index) ==
    /\ ret' = Ret("export_at_index", message_index, ExportAtIndex(igs, message_index))
    /\ UNCHANGED <<session, outbound_env, conc_vars, igs, sm_vars, room_vars>>

\* a persistence cycle of the inbound session
igs_pickle_cycle ==
    /\ igs' = IgsFromPickle(IgsPickle(igs))
    /\ ret' = Ret("from_pickle", 0, "ok")
    /\ UNCHANGED <<session, outbound_env, conc_vars, sm_vars, room_vars>>

InitInboundSpec ==
    /\ session = NewOutboundGroupSession(RoomA, DefaultSettings, 0)
    /\ now = 0
    /\ next_uuid = 0
    /\ requested = {}
    /\ ret = Ret("new", 0, "ok")
    /\ InitConc
    /\ \E room \in ValidRoomIds, i \in MessageIndices : igs = NewInboundGroupSession("curve:A", "ed:A", room, [session_id |-> "sid1", index |-> i])
    /\ store = [devices |-> EmptyMap, sessions |-> EmptyMap, next_session |-> 0]
    /\ InitSessionManager
    /\ InitRoom

NextInbound ==
    \/ \E event \in Events : igs_decrypt(event)
    \/ igs_export
    \/ \E i \in MessageIndices : igs_export_at_index(i)
    \/ igs_pickle_cycle

SpecInbound == InitInboundSpec /\ [][NextInbound]_vars

----------------------------------------------------------------------------
\* SessionManager (session_manager/sessions.rs) and what it calls: the store,
\* the device records, the account and the gossip machine.

\* Duration::from_secs(10) and Duration::from_secs(60 * 60), in milliseconds
KEY_CLAIM_TIMEOUT == DurationFromSecs(10)
UNWEDGING_INTERVAL == DurationFromSecs(60 * 60)

SIGNED_CURVE25519 == "signed_curve25519"

\* users a caller can name; @dave:x has no device in any store
SmUsers == {"@bob:x", "@carol:x", "@dave:x"}

\* the user lists handed to get_missing_sessions
UserLists == {{}, {"@bob:x"}, {"@carol:x"}, SmUsers}

\* (sender, curve key) pairs handed to mark_device_as_wedged: a device's own
\* key, the key of another user's device, a key no device has
WedgeArgs == {<<p[1], CurveKey(p[1], p[2])>> : p \in Recipients} \cup {<<"@bob:x", "curve:C1">>, <<"@bob:x", "curve:X">>}

\* the (user, device) pairs in the order a BTreeMap of users and devices
\* iterates them
DeviceOrder == <<(<<"@bob:x", "B1">>), (<<"@bob:x", "B2">>), (<<"@carol:x", "C1">>)>>

\* an Olm session: its id, the curve25519 key of the device it talks to and
\* the instant it was created
OlmSession(id, sender_key, creation_time) == [id |-> id, sender_key |-> sender_key, creation_time |-> creation_time]

\* DashMap<UserId, DashSet<DeviceIdBox>>: the pairs it holds
ClaimPairs(map) == {p \in Recipients : p[1] \in DOMAIN map /\ p[2] \in map[p[1]]}

\* map.entry(user).or_insert_with(DashSet::new).insert(device)
ClaimInsert(map, user, device) == [u \in DOMAIN map \cup {user} |-> IF u = user THEN (IF u \in DOMAIN map THEN map[u] ELSE {}) \cup {device} ELSE map[u]]

\* map.get(user).map(|d| d.remove(device)): the user's entry stays
ClaimRemove(map, user, device) == [u \in DOMAIN map |-> IF u = user THEN map[u] \ {device} ELSE map[u]]

\* Option::Some and Option::None of a record or a list
Some(v) == [some |-> TRUE, v |-> v]
None == [some |-> FALSE]

\* no (user, device) pair
NoPair == <<NONE, NONE>>

\* a device record: ids and its curve25519 key (NONE when it has none)
Device(user, device, curve25519) == [user_id |-> user, device_id |-> device, curve25519 |-> curve25519]

\* Store::get_readonly_device / Store::get_device: Some(record), or None
GetDevice(st, user, device) == IF <<user, device>> \in DOMAIN st.devices THEN Some(Device(user, device, st.devices[<<user, device>>])) ELSE None

\* Store::get_readonly_devices: device id -> record, for the devices of a user
GetReadonlyDevices(st, user) == [d \in {p[2] : p \in {q \in DOMAIN st.devices : q[1] = user}} |-> GetDevice(st, user, d).v]

\* Store::get_device_from_curve_key
GetDeviceFromCurveKey(st, user, curve_key) == LET found == {p \in DOMAIN st.devices : p[1] = user /\ st.devices[p] = curve_key /\ curve_key # NONE} IN IF found = {} THEN None ELSE GetDevice(st, user, (CHOOSE p \in found : TRUE)[2])

\* Store::get_sessions: the shared list of the sessions with a sender key,
\* first element first; None when no list is stored for the key
GetSessions(st, sender_key) == IF sender_key \in DOMAIN st.sessions THEN Some(st.sessions[sender_key]) ELSE None

\* position of session x when a list is sorted (stably) by creation time
RECURSIVE SortInsert(_, _)
SortInsert(sorted, x) == IF sorted = <<>> THEN <<x>> ELSE IF x.creation_time < Head(sorted).creation_time THEN <<x>> \o sorted ELSE <<Head(sorted)>> \o SortInsert(Tail(sorted), x)

\* sessions.sort_by_key(|s| s.creation_time.clone())
RECURSIVE SortByCreationTime(_)
SortByCreationTime(sessions) == IF sessions = <<>> THEN <<>> ELSE LET n == Len(sessions) IN SortInsert(SortByCreationTime(SubSeq(sessions, 1, n - 1)), sessions[n])

\* the store after the sessions of a Changes were saved: each session is
\* appended to the list of its sender key
RECURSIVE SaveSessions(_, _)
SaveSessions(st, sessions) == IF sessions = <<>> THEN st ELSE LET s == Head(sessions) old == IF s.sender_key \in DOMAIN st.sessions THEN st.sessions[s.sender_key] ELSE <<>> new == IF \E i \in 1..Len(old) : old[i].id = s.id THEN old ELSE Append(old, s) IN SaveSessions([st EXCEPT !.sessions = MapInsert(st.sessions, s.sender_key, new)], Tail(sessions))

\* ---- mark_device_as_wedged ----

\* session.creation_time.elapsed() > UNWEDGING_INTERVAL
Elapsed(s, time) == time - s.creation_time

\* the unwedging throttle measured against the key claim timeout
IsWedgeable_ClaimTimeout(s, time) == Elapsed(s, time) > KEY_CLAIM_TIMEOUT

IsWedgeable(s, time) == Elapsed(s, time) > UNWEDGING_INTERVAL

\* the oldest session of a device found by its curve key: what the lookups of
\* mark_device_as_wedged yield (None: no device, no list, or an empty list)
OldestSession(st, sender, curve_key) == IF ~GetDeviceFromCurveKey(st, sender, curve_key).some THEN None ELSE IF ~GetSessions(st, curve_key).some THEN None ELSE IF GetSessions(st, curve_key).v = <<>> THEN None ELSE Some(SortByCreationTime(GetSessions(st, curve_key).v)[1])

\* whether mark_device_as_wedged(sender, curve_key) marks the device
WedgeMarks(st, sender, curve_key, time) == OldestSession(st, sender, curve_key).some /\ IsWedgeable(OldestSession(st, sender, curve_key).v, time)

\* the store after mark_device_as_wedged: the device's session list is sorted
\* in place, oldest first
WedgeSorted(st, sender, curve_key) == IF GetDeviceFromCurveKey(st, sender, curve_key).some /\ GetSessions(st, curve_key).some THEN [st EXCEPT !.sessions[curve_key] = SortByCreationTime(@)] ELSE st

\* ---- get_missing_sessions ----

\* is_missing counting only a session list that is absent, not an empty one
IsMissing_NoList(st, device) == IF device.curve25519 = NONE THEN FALSE ELSE ~GetSessions(st, device.curve25519).some

\* a device of a listed user lacks a session: it has a curve25519 key and no
\* session list, or an empty one, is stored for that key
IsMissing(st, device) == IF device.curve25519 = NONE THEN FALSE ELSE IF GetSessions(st, device.curve25519).some THEN GetSessions(st, device.curve25519).v = <<>> ELSE TRUE

\* the pairs get_missing_sessions collects from the user list
MissingOfUsers(st, users) == UNION {{<<u, d>> : d \in {e \in DOMAIN GetReadonlyDevices(st, u) : IsMissing(st, GetReadonlyDevices(st, u)[e])}} : u \in users}

\* get_missing_sessions leaving out the users_for_key_claim map
MissingMap_UsersOnly(st, users, claim) == LET pairs == MissingOfUsers(st, users) IN [u \in {p[1] : p \in pairs} |-> [d \in {p[2] : p \in {q \in pairs : q[1] = u}} |-> SIGNED_CURVE25519]]

\* the BTreeMap user -> device -> algorithm that get_missing_sessions builds
MissingMap(st, users, claim) == LET pairs == MissingOfUsers(st, users) \cup ClaimPairs(claim) IN [u \in {p[1] : p \in pairs} |-> [d \in {p[2] : p \in {q \in pairs : q[1] = u}} |-> SIGNED_CURVE25519]]

\* the KeysClaimRequest with its timeout, under a fresh request id
KeysClaimRequest(missing) == [request_id |-> "uuid", one_time_keys |-> missing, timeout |-> KEY_CLAIM_TIMEOUT]

\* what get_missing_sessions returns
GetMissingSessions(st, users, claim) == IF DOMAIN MissingMap(st, users, claim) = {} THEN None ELSE Some(KeysClaimRequest(MissingMap(st, users, claim)))

\* ---- receive_keys_claim_response ----

\* Account::create_outbound_session: a session with the device's curve25519
\* key from a valid signed one-time key, an error otherwise
CanCreateOutboundSession(device, key_map) == device.curve25519 # NONE /\ key_map = "valid"

\* Device::encrypt: the content is encrypted with the first session the store
\* holds for the device's curve25519 key; an error when there is none
DeviceEncrypt(st, device, event_type) == LET sessions == IF device.curve25519 = NONE THEN None ELSE GetSessions(st, device.curve25519) IN IF ~sessions.some THEN [ok |-> FALSE] ELSE IF sessions.v = <<>> THEN [ok |-> FALSE] ELSE [ok |-> TRUE, session |-> sessions.v[1], content |-> [algorithm |-> OLM_V1, session_id |-> sessions.v[1].id, plaintext_type |-> event_type]]

\* ToDeviceRequest::new wrapped into an OutgoingRequest
ToDeviceRequest(txn_id, user, device, content) == [request_id |-> txn_id, event_type |-> "m.room.encrypted", user_id |-> user, device_id |-> device, content |-> content]

\* GossipMachine::retry_keyshare: the device leaves users_for_key_claim (the
\* map the two machines share) and its waiting key shares become incoming
RetryKeyshare(m, p) == [m EXCEPT !.claim = IF p[1] \in DOMAIN m.claim THEN (IF m.claim[p[1]] \ {p[2]} = {} THEN MapRemove(m.claim, p[1]) ELSE ClaimRemove(m.claim, p[1], p[2])) ELSE m.claim, !.krm = [wait_queue |-> m.krm.wait_queue \ {p}, incoming |-> m.krm.incoming \cup (m.krm.wait_queue \cap {p})]]

\* check_if_unwedged queueing the dummy without taking the device out of
\* wedged_devices
CheckIfUnwedged_KeepWedged(m, st, p, fails) == IF p[1] \in DOMAIN m.wedged /\ p[2] \in m.wedged[p[1]] THEN IF fails THEN [m EXCEPT !.logged = @ \cup {<<"unwedge", p>>}] ELSE IF ~GetDevice(st, p[1], p[2]).some THEN m ELSE IF ~DeviceEncrypt(st, GetDevice(st, p[1], p[2]).v, "m.dummy").ok THEN [m EXCEPT !.logged = @ \cup {<<"unwedge", p>>}] ELSE [m EXCEPT !.outgoing = MapInsert(m.outgoing, m.next_uuid + 1, ToDeviceRequest(m.next_uuid + 1, p[1], p[2], DeviceEncrypt(st, GetDevice(st, p[1], p[2]).v, "m.dummy").content)), !.next_uuid = m.next_uuid + 1, !.dummy = MapInsert(m.dummy, p, DeviceEncrypt(st, GetDevice(st, p[1], p[2]).v, "m.dummy").session.id)] ELSE m

\* check_if_unwedged: a device found in wedged_devices is taken out of it;
\* then the device is fetched, a dummy event encrypted for it and the request
\* put into outgoing_to_device_requests.  `fails`: the store lookup returns
\* an error.  An error of the lookup or of the encryption ends the step with
\* nothing queued; the caller logs it (`logged`)
CheckIfUnwedged(m, st, p, fails) == IF p[1] \in DOMAIN m.wedged /\ p[2] \in m.wedged[p[1]] THEN LET unwedged == [m EXCEPT !.wedged = ClaimRemove(m.wedged, p[1], p[2])] IN IF fails THEN [unwedged EXCEPT !.logged = @ \cup {<<"unwedge", p>>}] ELSE IF ~GetDevice(st, p[1], p[2]).some THEN unwedged ELSE IF ~DeviceEncrypt(st, GetDevice(st, p[1], p[2]).v, "m.dummy").ok THEN [unwedged EXCEPT !.logged = @ \cup {<<"unwedge", p>>}] ELSE [unwedged EXCEPT !.outgoing = MapInsert(m.outgoing, m.next_uuid + 1, ToDeviceRequest(m.next_uuid + 1, p[1], p[2], DeviceEncrypt(st, GetDevice(st, p[1], p[2]).v, "m.dummy").content)), !.next_uuid = m.next_uuid + 1, !.dummy = MapInsert(m.dummy, p, DeviceEncrypt(st, GetDevice(st, p[1], p[2]).v, "m.dummy").session.id)] ELSE m

\* the loop `continue`s for this device: the store lookup returns an error,
\* the device is unknown, or no session can be created from the key
CannotServe(st, p, key_map, lookup_fails) == IF lookup_fails THEN TRUE ELSE IF ~GetDevice(st, p[1], p[2]).some THEN TRUE ELSE ~CanCreateOutboundSession(GetDevice(st, p[1], p[2]).v, key_map)

\* the warning logged for a device the loop skips
Skipped(m, st, p, lookup_fails) == [m EXCEPT !.logged = @ \cup {<<(IF lookup_fails THEN "lookup" ELSE IF ~GetDevice(st, p[1], p[2]).some THEN "unknown" ELSE "create"), p>>}]

\* the loop body without the retry_keyshare call
ClaimOne_NoRetry(m, st, p, key_map, time, lookup_fails, unwedge_fails) == IF CannotServe(st, p, key_map, lookup_fails) THEN Skipped(m, st, p, lookup_fails) ELSE LET s == OlmSession(m.next_session + 1, GetDevice(st, p[1], p[2]).v.curve25519, time) IN CheckIfUnwedged([m EXCEPT !.changes = Append(m.changes, s), !.next_session = m.next_session + 1, !.created = MapInsert(m.created, p, s.id)], st, p, unwedge_fails)

\* the loop body creating the session without pushing it to the changes
ClaimOne_NoPush(m, st, p, key_map, time, lookup_fails, unwedge_fails) == IF CannotServe(st, p, key_map, lookup_fails) THEN Skipped(m, st, p, lookup_fails) ELSE LET s == OlmSession(m.next_session + 1, GetDevice(st, p[1], p[2]).v.curve25519, time) IN CheckIfUnwedged(RetryKeyshare([m EXCEPT !.next_session = m.next_session + 1, !.created = MapInsert(m.created, p, s.id)], p), st, p, unwedge_fails)

\* the loop body treating a device it cannot serve as the end of the response
ClaimOne_FailStops(m, st, p, key_map, time, lookup_fails, unwedge_fails) == IF m.stopped \/ CannotServe(st, p, key_map, lookup_fails) THEN [Skipped(m, st, p, lookup_fails) EXCEPT !.stopped = TRUE] ELSE LET s == OlmSession(m.next_session + 1, GetDevice(st, p[1], p[2]).v.curve25519, time) IN CheckIfUnwedged(RetryKeyshare([m EXCEPT !.changes = Append(m.changes, s), !.next_session = m.next_session + 1, !.created = MapInsert(m.created, p, s.id)], p), st, p, unwedge_fails)

\* the loop body of receive_keys_claim_response for one (user, device, key
\* map): a device that is unknown, cannot be fetched or whose session cannot
\* be created is skipped; otherwise the new session is pushed to the changes,
\* retry_keyshare is called and the device is checked for unwedging
ClaimOne(m, st, p, key_map, time, lookup_fails, unwedge_fails) == IF CannotServe(st, p, key_map, lookup_fails) THEN Skipped(m, st, p, lookup_fails) ELSE LET s == OlmSession(m.next_session + 1, GetDevice(st, p[1], p[2]).v.curve25519, time) IN CheckIfUnwedged(RetryKeyshare([m EXCEPT !.changes = Append(m.changes, s), !.next_session = m.next_session + 1, !.created = MapInsert(m.created, p, s.id)], p), st, p, unwedge_fails)

\* the loops over response.one_time_keys, from the i-th pair of the order on
RECURSIVE ClaimLoop(_, _, _, _, _, _, _)
ClaimLoop(m, st, response, i, time, lookup_fail, unwedge_fail) == IF i > Len(DeviceOrder) THEN m ELSE LET p == DeviceOrder[i] IN ClaimLoop(IF p \in DOMAIN response THEN ClaimOne(m, st, p, response[p], time, p = lookup_fail, p = unwedge_fail) ELSE m, st, response, i + 1, time, lookup_fail, unwedge_fail)

\* the manager, the store and the call in progress as one record
World == [store |-> store, claim |-> users_for_key_claim, wedged |-> wedged_devices, outgoing |-> outgoing_to_device_requests, krm |-> key_request_machine, next_uuid |-> next_uuid, next_session |-> store.next_session, pc |-> call.pc, changes |-> call.changes, keyshare |-> call.keyshare, created |-> call.created, dummy |-> call.dummy, saves |-> call.saves, persisted |-> call.persisted, logged |-> call.logged, result |-> call.result, stopped |-> FALSE]

\* the state the loop starts from: Changes::default()
LoopStart == [World EXCEPT !.pc = "loop", !.changes = <<>>, !.keyshare = {}, !.created = EmptyMap, !.dummy = EmptyMap, !.saves = 0, !.persisted = {}, !.logged = {}, !.result = NONE]

\* GossipMachine::collect_incoming_key_requests: the incoming key shares are
\* served, each encrypted with the first stored session of its device; the
\* sessions used are returned as changed
KeyshareSessions(st, krm) == {DeviceEncrypt(st, GetDevice(st, p[1], p[2]).v, "m.forwarded_room_key").session.id : p \in {q \in krm.incoming : GetDevice(st, q[1], q[2]).some /\ DeviceEncrypt(st, GetDevice(st, q[1], q[2]).v, "m.forwarded_room_key").ok}}

\* the ids of the sessions in a list
SessionIds(sessions) == {sessions[i].id : i \in 1..Len(sessions)}

\* the loops of receive_keys_claim_response, up to the first save_changes
Looped(m, response, time, lookup_fail, unwedge_fail) == LET l == ClaimLoop(m, m.store, response, 1, time, lookup_fail, unwedge_fail) IN [l EXCEPT !.store.next_session = l.next_session, !.pc = "save_changes"]

\* self.store.save_changes(changes).await? : the new sessions are written, or
\* the call returns the store's error
SavedChanges(m, ok) == IF m.pc # "save_changes" THEN m ELSE IF ok THEN [m EXCEPT !.store = SaveSessions(m.store, m.changes), !.saves = m.saves + 1, !.persisted = m.persisted \cup {<<"new", id>> : id \in SessionIds(m.changes)}, !.pc = "collect"] ELSE [m EXCEPT !.pc = "idle", !.result = "Err"]

\* collect_incoming_key_requests: Ok with the sessions the key shares used,
\* or an error that is only logged
Collected(m, ok) == IF m.pc # "collect" THEN m ELSE IF ok THEN [m EXCEPT !.keyshare = KeyshareSessions(m.store, m.krm), !.krm.incoming = {}, !.pc = "save_keyshare"] ELSE [m EXCEPT !.pc = "idle", !.result = "Ok"]

\* the second save_changes, of the sessions the key shares changed
SavedKeyshare(m, ok) == IF m.pc # "save_keyshare" THEN m ELSE IF ok THEN [m EXCEPT !.saves = m.saves + 1, !.persisted = m.persisted \cup {<<"keyshare", id>> : id \in m.keyshare}, !.pc = "idle", !.result = "Ok"] ELSE [m EXCEPT !.pc = "idle", !.result = "Err"]

\* the record of a call: while it runs, and as the report of what it did once
\* it returned
CallOf(m) == [pc |-> m.pc, changes |-> m.changes, keyshare |-> m.keyshare, created |-> m.created, dummy |-> m.dummy, saves |-> m.saves, persisted |-> m.persisted, logged |-> m.logged, result |-> m.result]

\* ---- actions of the session manager ----

ResultOk(v) == [ok |-> TRUE, val |-> v]
ResultErr == [ok |-> FALSE]

\* claim responses: any of the devices, each with a valid or an invalid
\* signed one-time key
Responses == {r \in UNION {[devs -> {"valid", "invalid"}] : devs \in RecipientSets} : \E p \in DOMAIN r : r[p] = "valid"}

\* get_missing_sessions taking the entries of users_for_key_claim out as it
\* puts them into the request
get_missing_sessions_Drains(users, store_ok) ==
    /\ ret' = IF store_ok THEN Ret("get_missing_sessions", users, ResultOk(GetMissingSessions(store, users, users_for_key_claim))) ELSE Ret("get_missing_sessions", {}, ResultErr)
    /\ users_for_key_claim' = IF store_ok THEN EmptyMap ELSE users_for_key_claim
    /\ UNCHANGED <<session, outbound_env, conc_vars, igs, store, wedged_devices, outgoing_to_device_requests, key_request_machine, call, room_vars>>

get_missing_sessions(users, store_ok) ==
    /\ ret' = IF store_ok THEN Ret("get_missing_sessions", users, ResultOk(GetMissingSessions(store, users, users_for_key_claim))) ELSE Ret("get_missing_sessions", {}, ResultErr)
    /\ UNCHANGED <<session, outbound_env, conc_vars, igs, sm_vars, room_vars>>

mark_device_as_wedged(sender, curve_key, store_ok) ==
    /\ store' = IF store_ok THEN WedgeSorted(store, sender, curve_key) ELSE store
    /\ users_for_key_claim' = IF store_ok /\ WedgeMarks(store, sender, curve_key, now) THEN ClaimInsert(users_for_key_claim, sender, GetDeviceFromCurveKey(store, sender, curve_key).v.device_id) ELSE users_for_key_claim
    /\ wedged_devices' = IF store_ok /\ WedgeMarks(store, sender, curve_key, now) THEN ClaimInsert(wedged_devices, sender, GetDeviceFromCurveKey(store, sender, curve_key).v.device_id) ELSE wedged_devices
    /\ ret' = IF store_ok THEN Ret("mark_device_as_wedged", <<sender, curve_key>>, ResultOk("unit")) ELSE Ret("mark_device_as_wedged", NoPair, ResultErr)
    /\ UNCHANGED <<session, outbound_env, conc_vars, igs, outgoing_to_device_requests, key_request_machine, call, room_vars>>

mark_outgoing_request_as_sent(id) ==
    /\ outgoing_to_device_requests' = IF id \in DOMAIN outgoing_to_device_requests THEN MapRemove(outgoing_to_device_requests, id) ELSE outgoing_to_device_requests
    /\ ret' = Ret("mark_outgoing_request_as_sent", id, "ok")
    /\ UNCHANGED <<session, outbound_env, conc_vars, igs, store, users_for_key_claim, wedged_devices, key_request_machine, call, room_vars>>

\* the gossip machine cannot serve a key request of a device it has no Olm
\* session with: the device is put into users_for_key_claim and the request
\* waits
key_request_waits(p) ==
    /\ p \in DOMAIN store.devices
    /\ IsMissing(store, GetDevice(store, p[1], p[2]).v)
    /\ users_for_key_claim' = ClaimInsert(users_for_key_claim, p[1], p[2])
    /\ key_request_machine' = [key_request_machine EXCEPT !.wait_queue = @ \cup {p}]
    /\ ret' = Ret("key_request_waits", p, "ok")
    /\ UNCHANGED <<session, outbound_env, conc_vars, igs, store, wedged_devices, outgoing_to_device_requests, call, room_vars>>

\* what can go wrong during one call: nothing, the store lookup of device p,
\* the unwedging step of device p, the first save_changes, the collecting of
\* the incoming key requests, or the second save_changes
NoFail == <<"none", NoPair>>
Fails(response) == {NoFail} \cup {<<k, p>> : k \in {"lookup", "unwedge"}, p \in DOMAIN response} \cup {<<k, NoPair>> : k \in {"save_changes", "collect", "save_keyshare"}}
LookupFail(fail) == IF fail[1] = "lookup" THEN fail[2] ELSE NoPair
UnwedgeFail(fail) == IF fail[1] = "unwedge" THEN fail[2] ELSE NoPair

\* the variables after (a step of) receive_keys_claim_response left world m
Returned(m, response) ==
    /\ store' = m.store
    /\ users_for_key_claim' = m.claim
    /\ wedged_devices' = m.wedged
    /\ outgoing_to_device_requests' = m.outgoing
    /\ key_request_machine' = m.krm
    /\ next_uuid' = m.next_uuid
    /\ call' = IF m.pc = "idle" THEN NoCall ELSE CallOf(m)
    /\ ret' = IF m.pc = "idle" THEN Ret("receive_keys_claim_response", response, CallOf(m)) ELSE ret
    /\ UNCHANGED <<session, now, requested, conc_vars, igs, room_vars>>

\* receive_keys_claim_response, from call to return
receive_keys_claim_response(response, fail) ==
    /\ call.pc = "idle"
    /\ \E m \in {SavedKeyshare(Collected(SavedChanges(Looped(LoopStart, response, now, LookupFail(fail), UnwedgeFail(fail)), fail[1] # "save_changes"), fail[1] # "collect"), fail[1] # "save_keyshare")} :
          /\ m.next_uuid <= MaxOutgoing
          /\ m.next_session <= MaxSessions
          /\ Returned(m, response)

\* stores the session manager starts with: device records (the curve25519 key
\* of each, NONE for a device without one) and the Olm sessions established
\* before, by sender key
B1 == <<"@bob:x", "B1">>
B2 == <<"@bob:x", "B2">>
C1 == <<"@carol:x", "C1">>
\* B1 without a session, carol's device without a curve25519 key
StoreFresh == [devices |-> [p \in {B1, C1} |-> IF p = C1 THEN NONE ELSE CurveKey(p[1], p[2])], sessions |-> EmptyMap, next_session |-> 0]
\* one session with B1, created at clock 0; B2 without a session
StoreOneOld == [devices |-> [p \in {B1, B2} |-> CurveKey(p[1], p[2])], sessions |-> [k \in {"curve:B1"} |-> <<OlmSession(1, "curve:B1", 0)>>], next_session |-> 1]
\* two sessions with B1, the younger first; an empty session list for C1
StoreTwoSessions == [devices |-> [p \in {B1, C1} |-> CurveKey(p[1], p[2])], sessions |-> [k \in {"curve:B1", "curve:C1"} |-> IF k = "curve:B1" THEN <<OlmSession(2, k, TickMs), OlmSession(1, k, 0)>> ELSE <<>>], next_session |-> 2]
InitialStores == {StoreFresh, StoreOneOld, StoreTwoSessions}

\* the manager is created an hour after the first stored session was
InitSM ==
    /\ session = NewOutboundGroupSession(RoomA, DefaultSettings, 0)
    /\ now = 2 * TickMs
    /\ next_uuid = 0
    /\ requested = {}
    /\ ret = Ret("new", 0, "ok")
    /\ InitConc
    /\ InitInbound
    /\ store \in InitialStores
    /\ InitSessionManager
    /\ InitRoom

NextSM ==
    \/ Tick
    \/ \E users \in UserLists, ok \in BOOLEAN : get_missing_sessions(users, ok)
    \/ \E a \in WedgeArgs, ok \in BOOLEAN : mark_device_as_wedged(a[1], a[2], ok)
    \/ \E id \in 1..MaxOutgoing : mark_outgoing_request_as_sent(id)
    \/ \E p \in Recipients : key_request_waits(p)
    \/ \E r \in Responses : \E fail \in Fails(r) : receive_keys_claim_response(r, fail)

SpecSM == InitSM /\ [][NextSM]_vars

----------------------------------------------------------------------------
\* End to end: the outbound session's key makes an inbound session, the
\* events the outbound session encrypts go to the room's timeline and the
\* inbound session decrypts them.

\* the session key taking the ratchet one message too far
SessionKey_NextIndex(s) == [session_id |-> s.inner.session_id, index |-> s.inner.index + 1]

\* OutboundGroupSession::session_key: the key of the ratchet at its current
\* message index
SessionKey(s) == [session_id |-> s.inner.session_id, index |-> s.inner.index]

\* contents and event types sent to the room: JSON objects with and without
\* a relation, and a content that is no object
RoomMessages == {<<c, "m.room.message">> : c \in Contents} \cup {<<JsonContent("other", ABSENT, ABSENT), "m.custom">>}

\* what the timeline keeps of a sent message: the event as the server
\* delivers it, the content and type that were encrypted, and the outbound
\* session's message_index() just before the encrypt call
Sent(s, content, event_type) == [event |-> SyncEncryptedEvent(EncryptedEventContent(s, content, event_type).scheme, EncryptedEventContent(s, content, event_type).ciphertext, EncryptedEventContent(s, content, event_type).relates_to), content |-> content, type |-> event_type, index |-> s.inner.index]

\* the events of the timeline
TimelineEvents == {timeline[i].event : i \in 1..Len(timeline)}

\* the recipient makes an inbound session for a room from session_key()
share_session_key(room_id) ==
    /\ igs' = NewInboundGroupSession("curve:A", "ed:A", room_id, SessionKey(session))
    /\ shared_at' = Len(timeline)
    /\ ret' = Ret("session_key", room_id, SessionKey(session))
    /\ UNCHANGED <<session, outbound_env, conc_vars, sm_vars, timeline, input, attachment, frames>>

\* encrypt(content, event_type), and the event is sent to the room
send_message(content, event_type) ==
    /\ session.message_count < MaxMsgs
    /\ session' = Encrypted(session)
    /\ timeline' = Append(timeline, Sent(session, content, event_type))
    /\ ret' = Ret("encrypt", content, EncryptedEventContent(session, content, event_type))
    /\ UNCHANGED <<outbound_env, conc_vars, igs, sm_vars, shared_at, input, attachment, frames>>

NextE2E ==
    \/ \E room \in ValidRoomIds : share_session_key(room)
    \/ \E m \in RoomMessages : send_message(m[1], m[2])
    \/ \E event \in TimelineEvents : igs_decrypt(event)
    \/ pickle_cycle

SpecE2E == Init /\ [][NextE2E]_vars

----------------------------------------------------------------------------
\* The short authentication string (verification/sas/helpers.rs): the bytes
\* the SAS object generates become seven emoji or three decimals.

\* values the generated bytes take: no bit, every bit, alternating bits, the
\* lowest bit
ByteValues == {0, 1, 85, 170, 255}

SixBytes == {<<a, b, c, d, e, f>> : a \in ByteValues, b \in ByteValues, c \in ByteValues, d \in ByteValues, e \in ByteValues, f \in ByteValues}
FiveBytes == {<<a, b, c, d, e>> : a \in ByteValues, b \in ByteValues, c \in ByteValues, d \in ByteValues, e \in ByteValues}

\* a & b and a | b on unsigned integers
RECURSIVE BitAnd(_, _)
BitAnd(a, b) == IF a = 0 \/ b = 0 THEN 0 ELSE (a % 2) * (b % 2) + 2 * BitAnd(a \div 2, b \div 2)
RECURSIVE BitOr(_, _)
BitOr(a, b) == IF a = 0 THEN b ELSE IF b = 0 THEN a ELSE (IF a % 2 = 1 \/ b % 2 = 1 THEN 1 ELSE 0) + 2 * BitOr(a \div 2, b \div 2)

\* a u64 as two limbs, value = hi * 2^24 + lo with lo < 2^24; the values
\* that occur stay below 2^48, far from the wrap of a u64
LimbBits == 24
U64(b) == [hi |-> 0, lo |-> b]
\* b << n, for a byte b
U64Shl(x, n) == IF n >= LimbBits THEN [hi |-> x.lo * 2^(n - LimbBits), lo |-> 0] ELSE [hi |-> (x.lo * 2^n) \div 2^LimbBits, lo |-> (x.lo * 2^n) % 2^LimbBits]
\* num += x
U64Add(x, y) == [hi |-> x.hi + y.hi + ((x.lo + y.lo) \div 2^LimbBits), lo |-> (x.lo + y.lo) % 2^LimbBits]
\* num >> n
U64Shr(x, n) == IF n >= LimbBits THEN [hi |-> 0, lo |-> x.hi \div 2^(n - LimbBits)] ELSE [hi |-> x.hi \div 2^n, lo |-> (x.hi % 2^n) * 2^(LimbBits - n) + (x.lo \div 2^n)]
\* num & mask, for a mask below 2^24
U64And(x, mask) == BitAnd(x.lo, mask)
\* `as u8`
AsU8(v) == v % 256

\* the six bytes joined into one u64
JoinBytes(bytes) == U64Add(U64Add(U64Add(U64Add(U64Add(U64Shl(U64(bytes[1]), 40), U64Shl(U64(bytes[2]), 32)), U64Shl(U64(bytes[3]), 24)), U64Shl(U64(bytes[4]), 16)), U64Shl(U64(bytes[5]), 8)), U64(bytes[6]))

\* bytes_to_emoji_index without the `& 63`
BytesToEmojiIndex_NoMask(bytes) == [i \in 1..7 |-> AsU8(U64Shr(JoinBytes(bytes), 48 - 6 * i).lo)]

\* bytes_to_emoji_index: ((num >> 42) & 63) as u8, ..., ((num >> 6) & 63) as u8
BytesToEmojiIndex(bytes) == [i \in 1..7 |-> AsU8(U64And(U64Shr(JoinBytes(bytes), 48 - 6 * i), 63))]

\* emoji_from_index: one of the 64 emoji, or the panic of the last match arm
EmojiFromIndex(index) == IF index \in 0..63 THEN [panic |-> FALSE, emoji |-> index] ELSE [panic |-> TRUE, emoji |-> 0]

\* bytes_to_emoji
BytesToEmoji(bytes) == [i \in 1..7 |-> EmojiFromIndex(BytesToEmojiIndex(bytes)[i])]

\* u16 arithmetic: x << n, x >> n, x + y
U16Shl(x, n) == (x * 2^n) % 65536
U16Shr(x, n) == x \div 2^n
U16Add(x, y) == (x + y) % 65536

\* bytes_to_decimal without the masks on the second and fourth byte
BytesToDecimal_NoMask(bytes) == <<U16Add(BitOr(U16Shl(bytes[1], 5), U16Shr(bytes[2], 3)), 1000), U16Add(BitOr(BitOr(U16Shl(bytes[2], 10), U16Shl(bytes[3], 2)), U16Shr(bytes[4], 6)), 1000), U16Add(BitOr(U16Shl(bytes[4], 7), U16Shr(bytes[5], 1)), 1000)>>

\* bytes_to_decimal
BytesToDecimal(bytes) == <<U16Add(BitOr(U16Shl(bytes[1], 5), U16Shr(bytes[2], 3)), 1000), U16Add(BitOr(BitOr(U16Shl(BitAnd(bytes[2], 7), 10), U16Shl(bytes[3], 2)), U16Shr(bytes[4], 6)), 1000), U16Add(BitOr(U16Shl(BitAnd(bytes[4], 63), 7), U16Shr(bytes[5], 1)), 1000)>>

\* everything but the argument and the result of a helper function
helper_frame == <<session, outbound_env, conc_vars, igs, sm_vars, room_vars>>

call_bytes_to_emoji_index ==
    /\ Len(input) = 6
    /\ ret' = Ret("bytes_to_emoji_index", input, BytesToEmojiIndex(input))
    /\ UNCHANGED helper_frame

call_bytes_to_emoji ==
    /\ Len(input) = 6
    /\ ret' = Ret("bytes_to_emoji", input, BytesToEmoji(input))
    /\ UNCHANGED helper_frame

call_bytes_to_decimal ==
    /\ Len(input) = 5
    /\ ret' = Ret("bytes_to_decimal", input, BytesToDecimal(input))
    /\ UNCHANGED helper_frame

\* the state around a helper function that is given `input`
InitHelper ==
    /\ session = NewOutboundGroupSession(RoomA, DefaultSettings, 0)
    /\ now = 0
    /\ next_uuid = 0
    /\ requested = {}
    /\ ret = Ret("new", 0, "ok")
    /\ InitConc
    /\ InitInbound
    /\ store = [devices |-> EmptyMap, sessions |-> EmptyMap, next_session |-> 0]
    /\ InitSessionManager
    /\ timeline = <<>>
    /\ shared_at = 0
    /\ attachment = NoAttachment
    /\ frames = [t \in Threads |-> IdleFrame]

InitSasBytes == InitHelper /\ (input \in SixBytes \/ input \in FiveBytes)

NextSasBytes ==
    \/ call_bytes_to_emoji_index
    \/ call_bytes_to_emoji
    \/ call_bytes_to_decimal

SpecSasBytes == InitSasBytes /\ [][NextSasBytes]_vars

----------------------------------------------------------------------------
\* The info strings of a SAS flow (verification/sas/helpers.rs).  A string is
\* the sequence of its characters and format! concatenates; the fixed
\* prefixes are one element each, no identifier contains them.

\* user ids, two of them on servers whose names differ by their last letter
SasUserIds == {<<"@", "a", ":", "b">>, <<"@", "a", ":", "b", "c">>}
\* device ids are opaque strings
SasDeviceIds == {<<"c", "D">>, <<"D">>, <<"E">>}
\* ephemeral public keys of the SAS objects
SasPublicKeys == {<<"P">>, <<"Q">>}
SasFlowIds == {<<"f">>, <<"g", "h">>}

\* one side of a flow: its account's user and device, and its SAS public key
SasParties == [user_id : SasUserIds, device_id : SasDeviceIds, pubkey : SasPublicKeys]

\* SasIds of `own` verifying `other`
SasIdsOf(own, other) == [account |-> own, other_device |-> other]

\* extra_info_sas that puts our own info first whoever started
ExtraInfoSas_OursFirst(ids, own_pubkey, their_pubkey, flow_id, we_started) == <<"MATRIX_KEY_VERIFICATION_SAS">> \o <<"|">> \o (ids.account.user_id \o <<"|">> \o ids.account.device_id \o <<"|">> \o own_pubkey) \o <<"|">> \o (ids.other_device.user_id \o <<"|">> \o ids.other_device.device_id \o <<"|">> \o their_pubkey) \o <<"|">> \o flow_id

\* extra_info_sas
ExtraInfoSas(ids, own_pubkey, their_pubkey, flow_id, we_started) ==
    LET our_info == ids.account.user_id \o <<"|">> \o ids.account.device_id \o <<"|">> \o own_pubkey
        their_info == ids.other_device.user_id \o <<"|">> \o ids.other_device.device_id \o <<"|">> \o their_pubkey
        first_info == IF we_started THEN our_info ELSE their_info
        second_info == IF we_started THEN their_info ELSE our_info
    IN  <<"MATRIX_KEY_VERIFICATION_SAS">> \o <<"|">> \o first_info \o <<"|">> \o second_info \o <<"|">> \o flow_id

\* extra_mac_info_receive that puts our own account first
ExtraMacInfoReceive_OursFirst(ids, flow_id) == <<"MATRIX_KEY_VERIFICATION_MAC">> \o ids.account.user_id \o ids.account.device_id \o ids.other_device.user_id \o ids.other_device.device_id \o flow_id

\* extra_mac_info_receive
ExtraMacInfoReceive(ids, flow_id) == <<"MATRIX_KEY_VERIFICATION_MAC">> \o ids.other_device.user_id \o ids.other_device.device_id \o ids.account.user_id \o ids.account.device_id \o flow_id

\* extra_mac_info_send
ExtraMacInfoSend(ids, flow_id) == <<"MATRIX_KEY_VERIFICATION_MAC">> \o ids.account.user_id \o ids.account.device_id \o ids.other_device.user_id \o ids.other_device.device_id \o flow_id

\* the flows: who started, who accepted, and the flow id both use
SasFlows == [a : SasParties, b : SasParties, flow_id : SasFlowIds]

\* both sides of the flow compute the info of the short authentication
\* string, each with its own ids and its own role
exchange_sas_info ==
    /\ ret' = Ret("extra_info_sas", input, [started |-> ExtraInfoSas(SasIdsOf(input.a, input.b), input.a.pubkey, input.b.pubkey, input.flow_id, TRUE), accepted |-> ExtraInfoSas(SasIdsOf(input.b, input.a), input.b.pubkey, input.a.pubkey, input.flow_id, FALSE)])
    /\ UNCHANGED helper_frame

\* x sends its MAC to y: the info x sends with, the info y checks with, and
\* the info y would send with (x and y are the two parties in either order)
exchange_mac_info(x, y) ==
    /\ ret' = Ret("extra_mac_info", [x |-> x, y |-> y, flow_id |-> input.flow_id], [send |-> ExtraMacInfoSend(SasIdsOf(x, y), input.flow_id), receive |-> ExtraMacInfoReceive(SasIdsOf(y, x), input.flow_id), opposite |-> ExtraMacInfoSend(SasIdsOf(y, x), input.flow_id)])
    /\ UNCHANGED helper_frame

InitSasInfo == InitHelper /\ input \in SasFlows

NextSasInfo ==
    \/ exchange_sas_info
    \/ exchange_mac_info(input.a, input.b)
    \/ exchange_mac_info(input.b, input.a)

SpecSasInfo == InitSasInfo /\ [][NextSasInfo]_vars

----------------------------------------------------------------------------
\* Checking a received m.key.verification.mac event (receive_mac_event).

\* OlmSas::calculate_mac: a MAC stands for what it was computed from, two
\* MACs are equal only if secret, message and info are
CalculateMac(sas, message, info) == [secret |-> sas, message |-> message, info |-> info]

\* the key ids a mac event may name: the sender's device key, the master key
\* of the sender's identity, a key nobody has, and a string that is no key id
DeviceKeyIdOf(device_id) == <<"ed25519", ":">> \o device_id
MacSenderDevice == <<"D">>
SenderKeyId == DeviceKeyIdOf(MacSenderDevice)
MasterKeyId == <<"ed25519", ":", "M">>
StrangerKeyId == <<"ed25519", ":", "Z">>
JunkKeyId == <<"j", "u", "n", "k">>
\* in the order of their bytes, the order of a BTreeMap and of a sorted Vec
MacKeyIdOrder == <<SenderKeyId, MasterKeyId, StrangerKeyId, JunkKeyId>>
MacKeyIds == {MacKeyIdOrder[i] : i \in 1..Len(MacKeyIdOrder)}

\* keys.sort_unstable()
SortedKeyIds(ids) == SelectSeq(MacKeyIdOrder, LAMBDA k : k \in ids)

\* keys.join(",")
RECURSIVE JoinKeyIds(_)
JoinKeyIds(seq) == IF seq = <<>> THEN <<>> ELSE IF Len(seq) = 1 THEN seq[1] ELSE seq[1] \o <<",">> \o JoinKeyIds(Tail(seq))

\* key_id.as_str().try_into(): a DeviceKeyId is algorithm, colon, device id
ParsesAsKeyId(key_id) == \E i \in 2..Len(key_id) : key_id[i] = ":"

\* the device that sent the event, with the keys it published, and the
\* account that received it
MacSender == [user_id |-> <<"@", "a", ":", "b">>, device_id |-> MacSenderDevice, keys |-> (SenderKeyId :> <<"e", "k">>)]
MacReceiver == [user_id |-> <<"@", "a", ":", "b", "c">>, device_id |-> <<"E">>]
\* the identity of the sender, if we know one, with its master key
MacSenderIdentity == [user_id |-> MacSender.user_id, master_key |-> (MasterKeyId :> <<"M">>)]
MacIds == {[account |-> MacReceiver, other_device |-> MacSender, other_identity |-> identity] : identity \in {None, Some(MacSenderIdentity)}}
MacFlowId == <<"f">>

\* the secrets of SAS objects: ours, and the one of a sender that did not
\* agree on a key with us
SasSecrets == {"shared", "foreign"}
OurSas == "shared"

\* the key a sender claims for a key id
ClaimedKeys(key_id) == IF key_id = SenderKeyId THEN {<<"e", "k">>, <<"x">>} ELSE IF key_id = MasterKeyId THEN {<<"M">>, <<"x">>} ELSE {<<"z">>}

\* the MACs an event may carry for a key id: of the right or of another key,
\* under our secret or under another
MacsFor(key_id) == {CalculateMac(sas, key, ExtraMacInfoReceive([account |-> MacReceiver, other_device |-> MacSender], MacFlowId) \o key_id) : sas \in SasSecrets, key \in ClaimedKeys(key_id)} \ {CalculateMac("foreign", <<"x">>, ExtraMacInfoReceive([account |-> MacReceiver, other_device |-> MacSender], MacFlowId) \o key_id)}

\* the mac maps of events
MacMaps == UNION {{m \in [ids -> UNION {MacsFor(k) : k \in ids}] : \A k \in ids : m[k] \in MacsFor(k)} : ids \in SUBSET MacKeyIds}

\* the keys field a sender puts next to a mac map: the MAC of the ids of the
\* map or of another list of ids, under our secret or under another
KeysFieldsFor(mac) == {CalculateMac(sas, JoinKeyIds(SortedKeyIds(ids)), ExtraMacInfoReceive([account |-> MacReceiver, other_device |-> MacSender], MacFlowId) \o <<"KEY_IDS">>) : sas \in SasSecrets, ids \in {DOMAIN mac, MacKeyIds}}

\* MacContent: mac() and keys()
MacContents == UNION {{[mac |-> mac, keys |-> keys] : keys \in KeysFieldsFor(mac)} : mac \in MacMaps}

\* the comparison of a key's MAC that accepts every MAC
MacMatches_Always(sas, key, info, key_id, key_mac) == TRUE

\* key_mac == &sas.calculate_mac(key, &format!("{}{}", info, key_id))
MacMatches(sas, key, info, key_id, key_mac) == key_mac = CalculateMac(sas, key, info \o key_id)

MacOk(devices, identities) == [ok |-> TRUE, devices |-> devices, identities |-> identities]
MacErr(code) == [ok |-> FALSE, code |-> code]

\* the loop over content.mac() from the key ids in `order` on
RECURSIVE CheckMacs(_, _, _, _, _, _, _)
CheckMacs(sas, ids, info, mac, order, verified_devices, verified_identities) ==
    IF order = <<>> THEN MacOk(verified_devices, verified_identities)
    ELSE LET key_id == Head(order) IN
        IF ~ParsesAsKeyId(key_id) THEN CheckMacs(sas, ids, info, mac, Tail(order), verified_devices, verified_identities)
        ELSE IF key_id \in DOMAIN ids.other_device.keys
        THEN IF MacMatches(sas, ids.other_device.keys[key_id], info, key_id, mac[key_id])
             THEN CheckMacs(sas, ids, info, mac, Tail(order), Append(verified_devices, ids.other_device), verified_identities)
             ELSE MacErr("KeyMismatch")
        ELSE IF ids.other_identity.some
        THEN IF key_id \in DOMAIN ids.other_identity.v.master_key
             THEN IF MacMatches(sas, ids.other_identity.v.master_key[key_id], info, key_id, mac[key_id])
                  THEN CheckMacs(sas, ids, info, mac, Tail(order), verified_devices, Append(verified_identities, ids.other_identity.v))
                  ELSE MacErr("KeyMismatch")
             ELSE CheckMacs(sas, ids, info, mac, Tail(order), verified_devices, verified_identities)
        ELSE CheckMacs(sas, ids, info, mac, Tail(order), verified_devices, verified_identities)

\* receive_mac_event; the sender is only written to the log
ReceiveMacEvent(sas, ids, flow_id, content) ==
    LET info == ExtraMacInfoReceive(ids, flow_id)
        keys == CalculateMac(sas, JoinKeyIds(SortedKeyIds(DOMAIN content.mac)), info \o <<"KEY_IDS">>)
    IN  IF keys # content.keys THEN MacErr("KeyMismatch")
        ELSE CheckMacs(sas, ids, info, content.mac, SortedKeyIds(DOMAIN content.mac), <<>>, <<>>)

receive_mac_event ==
    /\ ret' = Ret("receive_mac_event", input, ReceiveMacEvent(OurSas, input.ids, input.flow_id, input.content))
    /\ UNCHANGED helper_frame

InitSasMac == InitHelper /\ input \in [ids : MacIds, flow_id : {MacFlowId}, content : MacContents]

NextSasMac == receive_mac_event

SpecSasMac == InitSasMac /\ [][NextSasMac]_vars

----------------------------------------------------------------------------
\* The commitment of an accept event (calculate_commitment): the unpadded
\* base64 of the SHA-256 of our public key followed by the canonical JSON of
\* the start content.

\* the printable ASCII characters, from code 32 on (the grave accent, which
\* cannot be written in a string, by its name)
AsciiChars == <<" ", "!", "\"", "#", "$", "%", "&", "'", "(", ")", "*", "+", ",", "-", ".", "/", "0", "1", "2", "3", "4", "5", "6", "7", "8", "9", ":", ";", "<", "=", ">", "?", "@", "A", "B", "C", "D", "E", "F", "G", "H", "I", "J", "K", "L", "M", "N", "O", "P", "Q", "R", "S", "T", "U", "V", "W", "X", "Y", "Z", "[", "\\", "]", "^", "_", "grave", "a", "b", "c", "d", "e", "f", "g", "h", "i", "j", "k", "l", "m", "n", "o", "p", "q", "r", "s", "t", "u", "v", "w", "x", "y", "z", "{", "|", "}", "~">>
CharCodes == [c \in {AsciiChars[i] : i \in 1..Len(AsciiChars)} |-> CHOOSE i \in 32..126 : AsciiChars[i - 31] = c]
\* the bytes of a string of such characters
Bytes(str) == [i \in 1..Len(str) |-> CharCodes[str[i]]]

\* the order of strings by their bytes, the order of the keys of a BTreeMap
RECURSIVE LexLess(_, _)
LexLess(a, b) == IF a = <<>> THEN b # <<>> ELSE IF b = <<>> THEN FALSE ELSE IF CharCodes[Head(a)] # CharCodes[Head(b)] THEN CharCodes[Head(a)] < CharCodes[Head(b)] ELSE LexLess(Tail(a), Tail(b))

\* JSON values of a start content: strings and arrays of strings
JsonStr(s) == [array |-> FALSE, s |-> s, items |-> <<>>]
JsonArr(items) == [array |-> TRUE, s |-> <<>>, items |-> items]

\* the text of a string (none of the strings here needs an escape)
JsonStringText(s) == <<"\"">> \o s \o <<"\"">>
RECURSIVE JsonJoin(_)
JsonJoin(texts) == IF texts = <<>> THEN <<>> ELSE IF Len(texts) = 1 THEN texts[1] ELSE texts[1] \o <<",">> \o JsonJoin(Tail(texts))
JsonValueText(v) == IF v.array THEN <<"[">> \o JsonJoin([i \in 1..Len(v.items) |-> JsonStringText(v.items[i])]) \o <<"]">> ELSE JsonStringText(v.s)
\* the text of an object whose members are in the given order, no whitespace
JsonObjectText(members) == <<"{">> \o JsonJoin([i \in 1..Len(members) |-> JsonStringText(members[i][1]) \o <<":">> \o JsonValueText(members[i][2])]) \o <<"}">>

\* canonical_json().to_string() that keeps the field order of the struct
CanonicalJson_FieldOrder(content) == JsonObjectText(content)

\* StartContent::canonical_json followed by to_string: the members sorted by
\* key; `content` is the serialized start content, members in field order
CanonicalJson(content) == JsonObjectText(SortSeq(content, LAMBDA x, y : LexLess(x[1], y[1])))

\* a ^ b on unsigned integers
RECURSIVE BitXor(_, _)
BitXor(a, b) == IF a = 0 THEN b ELSE IF b = 0 THEN a ELSE ((a + b) % 2) + 2 * BitXor(a \div 2, b \div 2)

\* SHA-256 (FIPS 180-4).  A 32-bit word is the pair <<high, low>> of its
\* 16-bit halves; ^ and & go through tables of four bits.
XorNibble == [a \in 0..15 |-> [b \in 0..15 |-> BitXor(a, b)]]
AndNibble == [a \in 0..15 |-> [b \in 0..15 |-> BitAnd(a, b)]]
Xor16(a, b) == XorNibble[a \div 4096][b \div 4096] * 4096 + XorNibble[(a \div 256) % 16][(b \div 256) % 16] * 256 + XorNibble[(a \div 16) % 16][(b \div 16) % 16] * 16 + XorNibble[a % 16][b % 16]
And16(a, b) == AndNibble[a \div 4096][b \div 4096] * 4096 + AndNibble[(a \div 256) % 16][(b \div 256) % 16] * 256 + AndNibble[(a \div 16) % 16][(b \div 16) % 16] * 16 + AndNibble[a % 16][b % 16]
WordXor(x, y) == <<Xor16(x[1], y[1]), Xor16(x[2], y[2])>>
WordAnd(x, y) == <<And16(x[1], y[1]), And16(x[2], y[2])>>
WordNot(x) == <<65535 - x[1], 65535 - x[2]>>
\* addition modulo 2^32
WordAdd(x, y) == <<(x[1] + y[1] + ((x[2] + y[2]) \div 65536)) % 65536, (x[2] + y[2]) % 65536>>
\* rotation to the right by n, 0 < n < 32
RotateRight(x, n) == IF n = 16 THEN <<x[2], x[1]>> ELSE IF n > 16 THEN <<(x[2] \div 2^(n - 16)) + (x[1] % 2^(n - 16)) * 2^(32 - n), (x[1] \div 2^(n - 16)) + (x[2] % 2^(n - 16)) * 2^(32 - n)>> ELSE <<(x[1] \div 2^n) + (x[2] % 2^n) * 2^(16 - n), (x[2] \div 2^n) + (x[1] % 2^n) * 2^(16 - n)>>
\* shift to the right by n, 0 < n < 16
ShiftRight(x, n) == <<x[1] \div 2^n, (x[2] \div 2^n) + (x[1] % 2^n) * 2^(16 - n)>>

Sha256K == <<<<17034, 12184>>, <<28983, 17553>>, <<46528, 64463>>, <<59829, 56229>>, <<14678, 49755>>, <<23025, 4593>>, <<37439, 33444>>, <<43804, 24277>>, <<55303, 43672>>, <<4739, 23297>>, <<9265, 34238>>, <<21772, 32195>>, <<29374, 23924>>, <<32990, 45566>>, <<39900, 1703>>, <<49563, 61812>>, <<58523, 27073>>, <<61374, 18310>>, <<4033, 40390>>, <<9228, 41420>>, <<11753, 11375>>, <<19060, 33962>>, <<23728, 43484>>, <<30457, 35034>>, <<38974, 20818>>, <<43057, 50797>>, <<45059, 10184>>, <<48985, 32711>>, <<50912, 3059>>, <<54695, 37191>>, <<1738, 25425>>, <<5161, 10599>>, <<10167, 2693>>, <<11803, 8504>>, <<19756, 28156>>, <<21304, 3347>>, <<25866, 29524>>, <<30314, 2747>>, <<33218, 51502>>, <<37490, 11397>>, <<41663, 59553>>, <<43034, 26187>>, <<49739, 35696>>, <<51052, 20899>>, <<53650, 59417>>, <<54937, 1572>>, <<62478, 13701>>, <<4202, 41072>>, <<6564, 49430>>, <<7735, 27656>>, <<10056, 30540>>, <<13488, 48309>>, <<14620, 3251>>, <<20184, 43594>>, <<23452, 51791>>, <<26670, 28659>>, <<29839, 33518>>, <<30885, 25455>>, <<33992, 30740>>, <<36039, 520>>, <<37054, 65530>>, <<42064, 27883>>, <<48889, 41975>>, <<50801, 30962>>>>
Sha256H0 == <<<<27145, 58983>>, <<47975, 44677>>, <<15470, 62322>>, <<42319, 62778>>, <<20750, 21119>>, <<39685, 26764>>, <<8067, 55723>>, <<23520, 52505>>>>

Sha256Ch(x, y, z) == WordXor(WordAnd(x, y), WordAnd(WordNot(x), z))
Sha256Maj(x, y, z) == WordXor(WordXor(WordAnd(x, y), WordAnd(x, z)), WordAnd(y, z))
BigSigma0(x) == WordXor(WordXor(RotateRight(x, 2), RotateRight(x, 13)), RotateRight(x, 22))
BigSigma1(x) == WordXor(WordXor(RotateRight(x, 6), RotateRight(x, 11)), RotateRight(x, 25))
SmallSigma0(x) == WordXor(WordXor(RotateRight(x, 7), RotateRight(x, 18)), ShiftRight(x, 3))
SmallSigma1(x) == WordXor(WordXor(RotateRight(x, 17), RotateRight(x, 19)), ShiftRight(x, 10))

\* the message with the 1 bit, the zero bytes and the 64-bit length appended
\* (messages here are shorter than 2^21 bytes)
Sha256Pad(bytes) == bytes \o <<128>> \o [i \in 1..((119 - (Len(bytes) % 64)) % 64) |-> 0] \o <<0, 0, 0, 0, 0, (Len(bytes) * 8) \div 65536, ((Len(bytes) * 8) \div 256) % 256, (Len(bytes) * 8) % 256>>

\* the sixteen words of block b (from 0) of the padded message
Sha256BlockWords(padded, b) == [t \in 1..16 |-> <<padded[64 * b + 4 * t - 3] * 256 + padded[64 * b + 4 * t - 2], padded[64 * b + 4 * t - 1] * 256 + padded[64 * b + 4 * t]>>]

\* the message schedule: sixteen words extended to sixty-four, `more` words
\* at a time (the halves are computed one after the other)
RECURSIVE Sha256Extend(_, _)
Sha256Extend(w, more) ==
    IF more = 0 THEN w
    ELSE IF more = 1 THEN Append(w, WordAdd(WordAdd(WordAdd(SmallSigma1(w[Len(w) - 1]), w[Len(w) - 6]), SmallSigma0(w[Len(w) - 14])), w[Len(w) - 15]))
    ELSE CHOOSE r \in {Sha256Extend(v, more - (more \div 2)) : v \in {Sha256Extend(w, more \div 2)}} : TRUE
Sha256Schedule(w) == Sha256Extend(w, 64 - Len(w))

\* one round on the working variables a..h
Sha256Round(s, k, w) ==
    LET t1 == WordAdd(WordAdd(WordAdd(WordAdd(s[8], BigSigma1(s[5])), Sha256Ch(s[5], s[6], s[7])), k), w)
        t2 == WordAdd(BigSigma0(s[1]), Sha256Maj(s[1], s[2], s[3]))
    IN  <<WordAdd(t1, t2), s[1], s[2], s[3], WordAdd(s[4], t1), s[5], s[6], s[7]>>

\* the rounds from..to in order (the halves are computed one after the other)
RECURSIVE Sha256Rounds(_, _, _, _)
Sha256Rounds(s, w, from, to) ==
    IF from = to THEN Sha256Round(s, Sha256K[from], w[from])
    ELSE CHOOSE r \in {Sha256Rounds(mid, w, ((from + to) \div 2) + 1, to) : mid \in {Sha256Rounds(s, w, from, (from + to) \div 2)}} : TRUE

\* the hash value after one more block
Sha256Compress(h, words) == CHOOSE r \in {<<WordAdd(h[1], s[1]), WordAdd(h[2], s[2]), WordAdd(h[3], s[3]), WordAdd(h[4], s[4]), WordAdd(h[5], s[5]), WordAdd(h[6], s[6]), WordAdd(h[7], s[7]), WordAdd(h[8], s[8])>> : s \in {Sha256Rounds(h, w, 1, 64) : w \in {Sha256Schedule(words)}}} : TRUE

RECURSIVE Sha256Blocks(_, _, _)
Sha256Blocks(h, padded, b) == IF 64 * b >= Len(padded) THEN h ELSE CHOOSE r \in {Sha256Blocks(next, padded, b + 1) : next \in {Sha256Compress(h, Sha256BlockWords(padded, b))}} : TRUE

WordBytes(word) == <<word[1] \div 256, word[1] % 256, word[2] \div 256, word[2] % 256>>

\* the 32 bytes of the digest
Sha256(bytes) == CHOOSE r \in {WordBytes(h[1]) \o WordBytes(h[2]) \o WordBytes(h[3]) \o WordBytes(h[4]) \o WordBytes(h[5]) \o WordBytes(h[6]) \o WordBytes(h[7]) \o WordBytes(h[8]) : h \in {Sha256Blocks(Sha256H0, padded, 0) : padded \in {Sha256Pad(bytes)}}} : TRUE

\* the hasher: Sha256::new(), chain(data), finalize()
Sha256New == <<>>
Sha256Chain(hasher, data) == hasher \o data
Sha256Finalize(hasher) == Sha256(hasher)

\* utilities::encode: base64 with the standard alphabet and no padding
Base64Alphabet == <<"A", "B", "C", "D", "E", "F", "G", "H", "I", "J", "K", "L", "M", "N", "O", "P", "Q", "R", "S", "T", "U", "V", "W", "X", "Y", "Z", "a", "b", "c", "d", "e", "f", "g", "h", "i", "j", "k", "l", "m", "n", "o", "p", "q", "r", "s", "t", "u", "v", "w", "x", "y", "z", "0", "1", "2", "3", "4", "5", "6", "7", "8", "9", "+", "/">>
RECURSIVE Base64(_)
Base64(bytes) ==
    IF bytes = <<>> THEN <<>>
    ELSE IF Len(bytes) = 1 THEN <<Base64Alphabet[(bytes[1] \div 4) + 1], Base64Alphabet[(bytes[1] % 4) * 16 + 1]>>
    ELSE IF Len(bytes) = 2 THEN <<Base64Alphabet[(bytes[1] \div 4) + 1], Base64Alphabet[(bytes[1] % 4) * 16 + (bytes[2] \div 16) + 1], Base64Alphabet[(bytes[2] % 16) * 4 + 1]>>
    ELSE <<Base64Alphabet[(bytes[1] \div 4) + 1], Base64Alphabet[(bytes[1] % 4) * 16 + (bytes[2] \div 16) + 1], Base64Alphabet[(bytes[2] % 16) * 4 + (bytes[3] \div 64) + 1], Base64Alphabet[(bytes[3] % 64) + 1]>> \o Base64(SubSeq(bytes, 4, Len(bytes)))

\* calculate_commitment
CalculateCommitment(public_key, content) == Base64(Sha256Finalize(Sha256Chain(Sha256Chain(Sha256New, Bytes(public_key)), Bytes(CanonicalJson(content)))))

\* the public key, the start content and the commitment of the test
\* commitment_calculation
TestPublicKey == <<"Q", "/", "N", "m", "N", "F", "E", "U", "S", "1", "f", "S", "+", "Y", "e", "E", "m", "i", "Z", "k", "j", "j", "b", "l", "K", "T", "i", "t", "r", "K", "O", "A", "k", "7", "c", "P", "E", "u", "m", "c", "M", "l", "g">>
TestCommitment == <<"C", "C", "Q", "m", "B", "4", "J", "C", "d", "B", "0", "F", "W", "2", "1", "F", "d", "A", "n", "H", "j", "/", "H", "u", "8", "+", "W", "9", "+", "N", "b", "0", "v", "g", "w", "P", "E", "n", "Z", "Z", "Q", "4", "g">>
TestFromDevice == <<"X", "O", "W", "L", "H", "H", "F", "S", "W", "M">>
TestTransactionId == <<"b", "Y", "x", "B", "s", "i", "r", "j", "U", "J", "O", "9", "o", "s", "a", "r", "6", "S", "T", "4", "i", "2", "M", "2", "N", "j", "r", "Y", "L", "A", "7", "l">>

\* a to-device start content of the SAS method, its members in the order of
\* the test
SasStartContent(from_device, transaction_id, short_authentication_string) ==
    << <<<<"f", "r", "o", "m", "_", "d", "e", "v", "i", "c", "e">>, JsonStr(from_device)>>,
       <<<<"t", "r", "a", "n", "s", "a", "c", "t", "i", "o", "n", "_", "i", "d">>, JsonStr(transaction_id)>>,
       <<<<"m", "e", "t", "h", "o", "d">>, JsonStr(<<"m", ".", "s", "a", "s", ".", "v", "1">>)>>,
       <<<<"k", "e", "y", "_", "a", "g", "r", "e", "e", "m", "e", "n", "t", "_", "p", "r", "o", "t", "o", "c", "o", "l", "s">>, JsonArr(<<<<"c", "u", "r", "v", "e", "2", "5", "5", "1", "9", "-", "h", "k", "d", "f", "-", "s", "h", "a", "2", "5", "6">>, <<"c", "u", "r", "v", "e", "2", "5", "5", "1", "9">>>>)>>,
       <<<<"h", "a", "s", "h", "e", "s">>, JsonArr(<<<<"s", "h", "a", "2", "5", "6">>>>)>>,
       <<<<"m", "e", "s", "s", "a", "g", "e", "_", "a", "u", "t", "h", "e", "n", "t", "i", "c", "a", "t", "i", "o", "n", "_", "c", "o", "d", "e", "s">>, JsonArr(<<<<"h", "k", "d", "f", "-", "h", "m", "a", "c", "-", "s", "h", "a", "2", "5", "6">>, <<"h", "m", "a", "c", "-", "s", "h", "a", "2", "5", "6">>>>)>>,
       <<<<"s", "h", "o", "r", "t", "_", "a", "u", "t", "h", "e", "n", "t", "i", "c", "a", "t", "i", "o", "n", "_", "s", "t", "r", "i", "n", "g">>, JsonArr(short_authentication_string)>> >>

\* a to-device start content of the QR code method
ReciprocateStartContent(from_device, transaction_id) ==
    << <<<<"f", "r", "o", "m", "_", "d", "e", "v", "i", "c", "e">>, JsonStr(from_device)>>,
       <<<<"t", "r", "a", "n", "s", "a", "c", "t", "i", "o", "n", "_", "i", "d">>, JsonStr(transaction_id)>>,
       <<<<"m", "e", "t", "h", "o", "d">>, JsonStr(<<"m", ".", "r", "e", "c", "i", "p", "r", "o", "c", "a", "t", "e", ".", "v", "1">>)>>,
       <<<<"s", "e", "c", "r", "e", "t">>, JsonStr(<<"c", "2", "V", "j", "c", "m", "V", "0">>)>> >>

TestStartContent == SasStartContent(TestFromDevice, TestTransactionId, <<<<"d", "e", "c", "i", "m", "a", "l">>, <<"e", "m", "o", "j", "i">>>>)

CommitmentPublicKeys == {TestPublicKey, <<"o", "F", "8", "L", "F", "N", "c", "6", "C", "s", "C", "N", "V", "V", "Y", "1", "j", "G", "M", "D", "i", "u", "2", "t", "V", "S", "T", "Q", "I", "q", "b", "8", "G", "X", "9", "P", "e", "8", "O", "r", "n", "m", "Y">>}
CommitmentDevices == {TestFromDevice, <<"J", "L", "A", "F", "K", "J", "W", "S", "C", "S">>}
CommitmentTransactions == {TestTransactionId, <<"t", "1">>, <<"$", "e", "v", ":", "b">>}
CommitmentSasLists == {<<<<"d", "e", "c", "i", "m", "a", "l">>, <<"e", "m", "o", "j", "i">>>>, <<<<"e", "m", "o", "j", "i">>>>, <<<<"d", "e", "c", "i", "m", "a", "l">>>>}

call_canonical_json ==
    /\ ret' = Ret("canonical_json", input.content, CanonicalJson(input.content))
    /\ UNCHANGED helper_frame

call_calculate_commitment ==
    /\ ret' = Ret("calculate_commitment", input, CalculateCommitment(input.public_key, input.content))
    /\ UNCHANGED helper_frame

InitCommitment ==
    /\ InitHelper
    /\ \E pk \in CommitmentPublicKeys, d \in CommitmentDevices, t \in CommitmentTransactions :
        \/ \E l \in CommitmentSasLists : input = [public_key |-> pk, content |-> SasStartContent(d, t, l)]
        \/ input = [public_key |-> pk, content |-> ReciprocateStartContent(d, t)]

NextCommitment ==
    \/ call_canonical_json
    \/ call_calculate_commitment

SpecCommitment == InitCommitment /\ [][NextCommitment]_vars

----------------------------------------------------------------------------
\* Encrypted attachments (file_encryption/attachments.rs): a reader is wrapped
\* in an AttachmentEncryptor, the caller reads the ciphertext from it and
\* calls finish(); the ciphertext is wrapped in an AttachmentDecryptor and the
\* caller reads the plaintext from it.

\* the longest attachment and the largest buffer handed to read()
MaxData == 3
MaxBuf == 2

\* the bytes of attachments
DataBytes == {0, 77, 255}
Attachments == UNION {[1..n -> DataBytes] : n \in 0..MaxData}
\* the lengths of the buffers of read(); a slice may be empty
BufLens == 0..MaxBuf
\* what getrandom puts into the key and into the first half of the iv
AesKeys == {11, 222}
AesIvs == {5}

\* Aes256Ctr: the byte of the key stream at a position, and apply_keystream
\* on a chunk that starts at position pos
KeyStream(key, iv, pos) == (key * 7 + iv * 13 + pos * 101 + 89) % 256
ApplyKeystream(key, iv, pos, chunk) == [i \in 1..Len(chunk) |-> BitXor(chunk[i], KeyStream(key, iv, pos + i - 1))]

\* Sha256: the hasher holds what it was fed since new() or the last reset;
\* the digest stands for the bytes it was taken of
Digest(fed) == [sha256 |-> fed]

\* encode/decode and encode_url_safe/decode_url_safe of the parent module
Encode(bytes) == [base64 |-> bytes]
Decode(text) == text.base64
EncodeUrlSafe(bytes) == [base64url |-> bytes]
DecodeUrlSafe(text) == text.base64url

\* the inner reader, a Cursor: read(buf) fills in what is left, up to the
\* length of the buffer
CursorRead(data, pos, len) == SubSeq(data, pos + 1, pos + (IF len < Len(data) - pos THEN len ELSE Len(data) - pos))

\* AttachmentEncryptor::new over a reader of `data`
NewAttachment(data, key, iv) ==
    [stage |-> "encrypting", data |-> data, read |-> 0, at_end |-> FALSE,
     key |-> key, iv |-> iv, web_key |-> EncodeUrlSafe(key), encoded_iv |-> Encode(iv),
     hashes |-> None, sha |-> <<>>, aes |-> 0,
     encrypted |-> <<>>, info |-> None,
     dec_read |-> 0, dec_sha |-> <<>>, dec_aes |-> 0, expected_hash |-> None, dec_key |-> 0, dec_iv |-> 0,
     decrypted |-> <<>>]

\* hashes.entry("sha256").or_insert_with(|| encode(hash))
OrInsertHash(hashes, hash) == IF hashes.some THEN hashes ELSE Some(Encode(hash))

no_attachment_frame == <<session, outbound_env, conc_vars, igs, sm_vars, timeline, shared_at, input, frames>>

\* AttachmentEncryptor::read with a buffer of `len` bytes; the caller appends
\* what it got to the ciphertext
encryptor_read(len) ==
    /\ attachment.stage = "encrypting"
    /\ \E chunk \in {CursorRead(attachment.data, attachment.read, len)} :
        IF Len(chunk) = 0
        THEN /\ attachment' = [attachment EXCEPT !.hashes = OrInsertHash(@, Digest(attachment.sha)), !.sha = <<>>, !.at_end = (attachment.read = Len(attachment.data))]
             /\ ret' = Ret("encryptor_read", len, 0)
        ELSE /\ \E out \in {ApplyKeystream(attachment.key, attachment.iv, attachment.aes, chunk)} :
                attachment' = [attachment EXCEPT !.read = @ + Len(chunk), !.aes = @ + Len(chunk), !.sha = @ \o out, !.encrypted = @ \o out, !.at_end = FALSE]
             /\ ret' = Ret("encryptor_read", len, Len(chunk))
    /\ UNCHANGED no_attachment_frame

\* AttachmentEncryptor::finish, once the reader was read to its end
finish ==
    /\ attachment.stage = "encrypting"
    /\ attachment.at_end
    /\ \E info \in {[version |-> "v2", hashes |-> OrInsertHash(attachment.hashes, Digest(attachment.sha)), iv |-> attachment.encoded_iv, web_key |-> attachment.web_key]} :
        /\ attachment' = [attachment EXCEPT !.stage = "finished", !.info = Some(info)]
        /\ ret' = Ret("finish", 0, info)
    /\ UNCHANGED no_attachment_frame

\* AttachmentDecryptor::new over the ciphertext, with the info of finish()
new_decryptor ==
    /\ attachment.stage = "finished"
    /\ attachment' = [attachment EXCEPT !.stage = "decrypting", !.expected_hash = Some(Decode(attachment.info.v.hashes.v)), !.dec_key = DecodeUrlSafe(attachment.info.v.web_key), !.dec_iv = Decode(attachment.info.v.iv), !.dec_sha = <<>>, !.dec_aes = 0, !.dec_read = 0]
    /\ ret' = Ret("new_decryptor", 0, "ok")
    /\ UNCHANGED no_attachment_frame

\* AttachmentDecryptor::read with a buffer of `len` bytes; the caller appends
\* what it got to the plaintext.  Stage "done": a read has returned 0 at the
\* end of the ciphertext; the decryptor can still be read
decryptor_read(len) ==
    /\ attachment.stage \in {"decrypting", "done"}
    /\ \E chunk \in {CursorRead(attachment.encrypted, attachment.dec_read, len)} :
        IF Len(chunk) = 0
        THEN IF Digest(attachment.dec_sha) = attachment.expected_hash.v
             THEN /\ attachment' = [attachment EXCEPT !.dec_sha = <<>>, !.stage = IF attachment.dec_read = Len(attachment.encrypted) THEN "done" ELSE "decrypting"]
                  /\ ret' = Ret("decryptor_read", len, 0)
             ELSE /\ attachment' = [attachment EXCEPT !.dec_sha = <<>>, !.stage = "panicked"]
                  /\ ret' = Ret("decryptor_read", len, "INVALID HASH")
        ELSE /\ attachment' = [attachment EXCEPT !.dec_read = @ + Len(chunk), !.dec_sha = @ \o chunk, !.dec_aes = @ + Len(chunk), !.decrypted = @ \o ApplyKeystream(attachment.dec_key, attachment.dec_iv, attachment.dec_aes, chunk)]
             /\ ret' = Ret("decryptor_read", len, Len(chunk))
    /\ UNCHANGED no_attachment_frame

InitAttachment ==
    /\ session = NewOutboundGroupSession(RoomA, DefaultSettings, 0)
    /\ now = 0
    /\ next_uuid = 0
    /\ requested = {}
    /\ ret = Ret("new", 0, "ok")
    /\ InitConc
    /\ InitInbound
    /\ store = [devices |-> EmptyMap, sessions |-> EmptyMap, next_session |-> 0]
    /\ InitSessionManager
    /\ timeline = <<>>
    /\ shared_at = 0
    /\ input = NoInput
    /\ attachment \in {NewAttachment(data, key, iv) : data \in Attachments, key \in AesKeys, iv \in AesIvs}
    /\ frames = [t \in Threads |-> IdleFrame]

NextAttachment ==
    \/ \E len \in BufLens : encryptor_read(len)
    \/ finish
    \/ new_decryptor
    \/ \E len \in BufLens : decryptor_read(len)

SpecAttachment == InitAttachment /\ [][NextAttachment]_vars

----------------------------------------------------------------------------
\* The power level of a room member (matrix-sdk-base, rooms/members.rs).

\* power levels of m.room.power_levels events and of max_power_level; ruma's
\* Int keeps them within 2^53, so the product with 100 fits an i64
PowerLevels == {-10, 0, 50, 100, 150}
MaxPowerLevels == {-10, 0, 50, 100}

\* the content of the power levels event as far as a member is concerned: the
\* entry of the member in `users`, if any, and users_default
PowerLevelsEvents == [users : {None} \cup {Some(p) : p \in PowerLevels}, users_default : PowerLevels]

RoomMembers == [power_levels : {None} \cup {Some(e) : e \in PowerLevelsEvents}, max_power_level : MaxPowerLevels, is_room_creator : BOOLEAN]

\* the / of i64, which rounds towards zero
I64Div(a, b) == IF (a < 0) = (b < 0) THEN (IF a < 0 THEN -a ELSE a) \div (IF b < 0 THEN -b ELSE b) ELSE -((IF a < 0 THEN -a ELSE a) \div (IF b < 0 THEN -b ELSE b))

\* RoomMember::power_level
PowerLevel(member) ==
    IF member.power_levels.some
    THEN IF member.power_levels.v.users.some THEN member.power_levels.v.users.v ELSE member.power_levels.v.users_default
    ELSE IF member.is_room_creator THEN 100 ELSE 0

\* RoomMember::normalized_power_level
NormalizedPowerLevel(member) == IF member.max_power_level > 0 THEN I64Div(PowerLevel(member) * 100, member.max_power_level) ELSE PowerLevel(member)

call_power_level ==
    /\ ret' = Ret("power_level", input, PowerLevel(input))
    /\ UNCHANGED helper_frame

call_normalized_power_level ==
    /\ ret' = Ret("normalized_power_level", input, NormalizedPowerLevel(input))
    /\ UNCHANGED helper_frame

InitPower == InitHelper /\ input \in RoomMembers

NextPower ==
    \/ call_power_level
    \/ call_normalized_power_level

SpecPower == InitPower /\ [][NextPower]_vars

----------------------------------------------------------------------------
\* is_shared_with: has the session been shared with a device, or will it be.

\* the devices asked about: a recipient's device with the curve25519 key it
\* had when sessions were shared, with another one, or with none
ChangedCurveKey == "curve:changed"
QueriedDevices == UNION {{[user_id |-> r[1], device_id |-> r[2], curve25519 |-> k] : k \in {None, Some(CurveKey(r[1], r[2])), Some(ChangedCurveKey)}} : r \in Recipients}

Shared(message_index) == [state |-> "Shared", message_index |-> message_index]
SharedButChangedSenderKey == [state |-> "SharedButChangedSenderKey"]
NotShared == [state |-> "NotShared"]

\* the ShareInfo of the device in a user -> device -> ShareInfo map, if any
ShareInfoOf(map, device) == IF device.user_id \in DOMAIN map /\ device.device_id \in DOMAIN map[device.user_id] THEN Some(map[device.user_id][device.device_id]) ELSE None

\* Some(&info.sender_key) == device.get_key(Curve25519)
ShareStateOf(info, device) == IF device.curve25519 = Some(info.sender_key) THEN Shared(info.message_index) ELSE SharedButChangedSenderKey

\* the pending requests whose ShareInfoSet contains the device
RequestsWith(s, device) == {id \in DOMAIN s.to_share_with_set : ShareInfoOf(s.to_share_with_set[id], device).some}

\* is_shared_with that looks into the pending requests first
IsSharedWith_PendingFirst(s, device) ==
    IF RequestsWith(s, device) # {}
    THEN {ShareStateOf(ShareInfoOf(s.to_share_with_set[id], device).v, device) : id \in RequestsWith(s, device)}
    ELSE IF ShareInfoOf(s.shared_with_set, device).some
    THEN {ShareStateOf(ShareInfoOf(s.shared_with_set, device).v, device)}
    ELSE {NotShared}

\* OutboundGroupSession::is_shared_with: the states it may return.  The
\* pending requests are in a DashMap, find_map takes the first one in the
\* order of its iteration that contains the device, which may be any of them.
IsSharedWith(s, device) ==
    IF ShareInfoOf(s.shared_with_set, device).some
    THEN {ShareStateOf(ShareInfoOf(s.shared_with_set, device).v, device)}
    ELSE IF RequestsWith(s, device) # {}
    THEN {ShareStateOf(ShareInfoOf(s.to_share_with_set[id], device).v, device) : id \in RequestsWith(s, device)}
    ELSE {NotShared}

is_shared_with(device) ==
    /\ \E state \in IsSharedWith(session, device) : ret' = Ret("is_shared_with", device, state)
    /\ UNCHANGED <<session, outbound_env, conc_vars, igs, sm_vars, room_vars>>

NextShared ==
    \/ \E recips \in RecipientSets : add_request(recips)
    \/ \E id \in RequestIds : mark_request_as_sent(id)
    \/ \E c \in Contents : encrypt(c, "m.room.message")
    \/ \E device \in QueriedDevices : is_shared_with(device)

SpecShared == Init /\ [][NextShared]_vars

----------------------------------------------------------------------------
\* mark_request_as_sent and is_shared_with running concurrently on one
\* session: every access to a DashMap or to an atomic is a step of its own.

\* the users of a ShareInfoSet in the order its BTreeMap iterates them
UserOrder == <<"@bob:x", "@carol:x">>
FirstUser(users) == UserOrder[CHOOSE i \in 1..Len(UserOrder) : UserOrder[i] \in users /\ \A j \in 1..(i - 1) : UserOrder[j] \notin users]

\* what a mark_request_as_sent call holds after the remove: the ShareInfoSet
\* r it took out and the users of r the loop has still to visit
MarkFrame(request_id, r, todo) == [op |-> "mark_request_as_sent", at |-> IF todo = {} THEN "is_empty" ELSE "extend", request_id |-> request_id, r |-> r, todo |-> todo]

\* what an is_shared_with call holds once shared_with_set had no record: the
\* pending requests find_map has passed
FindFrame(device, was_requested, seen) == [op |-> "is_shared_with", at |-> "find_map", device |-> device, was_requested |-> was_requested, seen |-> seen]

\* the device's pair was put into a request before
WasRequested(device) == <<device.user_id, device.device_id>> \in requested

\* self.to_share_with_set.remove(request_id)
mrs_remove(t, request_id) ==
    /\ frames[t] = IdleFrame
    /\ IF request_id \in DOMAIN session.to_share_with_set
       THEN /\ session' = [session EXCEPT !.to_share_with_set = MapRemove(session.to_share_with_set, request_id)]
            /\ frames' = [frames EXCEPT ![t] = MarkFrame(request_id, session.to_share_with_set[request_id], DOMAIN session.to_share_with_set[request_id])]
            /\ ret' = Ret("mark_request_as_sent", request_id, "removed")
       ELSE /\ ret' = Ret("mark_request_as_sent", request_id, "not found")
            /\ UNCHANGED <<session, frames>>
    /\ UNCHANGED <<outbound_env, conc_vars, igs, sm_vars, timeline, shared_at, input, attachment>>

\* one turn of the loop: shared_with_set.entry(user_id).or_insert_with(DashMap::new).extend(info)
mrs_extend(t) ==
    /\ frames[t].op = "mark_request_as_sent"
    /\ frames[t].at = "extend"
    /\ \E user_id \in {FirstUser(frames[t].todo)} :
        /\ session' = [session EXCEPT !.shared_with_set = MergeShareInfo(session.shared_with_set, [u \in {user_id} |-> frames[t].r[u]])]
        /\ frames' = [frames EXCEPT ![t] = MarkFrame(frames[t].request_id, frames[t].r, frames[t].todo \ {user_id})]
    /\ UNCHANGED <<outbound_env, ret, conc_vars, igs, sm_vars, timeline, shared_at, input, attachment>>

\* if self.to_share_with_set.is_empty(); the call returns when it is not
mrs_is_empty(t) ==
    /\ frames[t].op = "mark_request_as_sent"
    /\ frames[t].at = "is_empty"
    /\ IF DOMAIN session.to_share_with_set = {}
       THEN /\ frames' = [frames EXCEPT ![t].at = "mark_as_shared"]
            /\ UNCHANGED ret
       ELSE /\ frames' = [frames EXCEPT ![t] = IdleFrame]
            /\ ret' = Ret("mark_request_as_sent", frames[t].request_id, "sent")
    /\ UNCHANGED <<session, outbound_env, conc_vars, igs, sm_vars, timeline, shared_at, input, attachment>>

\* self.mark_as_shared(), and the call returns
mrs_mark_as_shared(t) ==
    /\ frames[t].op = "mark_request_as_sent"
    /\ frames[t].at = "mark_as_shared"
    /\ session' = MarkedShared(session)
    /\ frames' = [frames EXCEPT ![t] = IdleFrame]
    /\ ret' = Ret("mark_request_as_sent", frames[t].request_id, "sent")
    /\ UNCHANGED <<outbound_env, conc_vars, igs, sm_vars, timeline, shared_at, input, attachment>>

\* is_shared_with is called: the lookup in shared_with_set, which answers
\* when it has a record of the device
isw_shared_with_set(t, device) ==
    /\ frames[t] = IdleFrame
    /\ IF ShareInfoOf(session.shared_with_set, device).some
       THEN /\ ret' = Ret("is_shared_with", [device |-> device, was_requested |-> WasRequested(device)], ShareStateOf(ShareInfoOf(session.shared_with_set, device).v, device))
            /\ UNCHANGED frames
       ELSE /\ frames' = [frames EXCEPT ![t] = FindFrame(device, WasRequested(device), {})]
            /\ UNCHANGED ret
    /\ UNCHANGED <<session, outbound_env, conc_vars, igs, sm_vars, timeline, shared_at, input, attachment>>

\* find_map over to_share_with_set: the iteration comes to one more pending
\* request and answers when it holds the device, or it is over and the call
\* returns NotShared
isw_find_map(t) ==
    /\ frames[t].op = "is_shared_with"
    /\ IF DOMAIN session.to_share_with_set \ frames[t].seen = {}
       THEN /\ frames' = [frames EXCEPT ![t] = IdleFrame]
            /\ ret' = Ret("is_shared_with", [device |-> frames[t].device, was_requested |-> frames[t].was_requested], NotShared)
       ELSE \E id \in DOMAIN session.to_share_with_set \ frames[t].seen :
            IF ShareInfoOf(session.to_share_with_set[id], frames[t].device).some
            THEN /\ frames' = [frames EXCEPT ![t] = IdleFrame]
                 /\ ret' = Ret("is_shared_with", [device |-> frames[t].device, was_requested |-> frames[t].was_requested], ShareStateOf(ShareInfoOf(session.to_share_with_set[id], frames[t].device).v, frames[t].device))
            ELSE /\ frames' = [frames EXCEPT ![t].seen = @ \cup {id}]
                 /\ UNCHANGED ret
    /\ UNCHANGED <<session, outbound_env, conc_vars, igs, sm_vars, timeline, shared_at, input, attachment>>

NextSharedConc ==
    \/ \E recips \in RecipientSets : add_request(recips)
    \/ \E t \in Threads, id \in RequestIds : mrs_remove(t, id)
    \/ \E t \in Threads : mrs_extend(t)
    \/ \E t \in Threads : mrs_is_empty(t)
    \/ \E t \in Threads : mrs_mark_as_shared(t)
    \/ \E t \in Threads, device \in QueriedDevices : isw_shared_with_set(t, device)
    \/ \E t \in Threads : isw_find_map(t)

SpecSharedConc == Init /\ [][NextSharedConc]_vars

----------------------------------------------------------------------------
\* pickle running next to encrypt, add_request and mark_request_as_sent: the
\* fields of the PickledOutboundGroupSession are read one after the other.

\* what a pickle call holds: the fields read so far (the others still at
\* their zero) and the field it reads next
PickleFrame(at, pickled) == [op |-> "pickle", at |-> at, pickled |-> pickled]

\* self.inner.lock().await.pickle(pickling_mode): the guard lives for this
\* statement only; room_id, settings and creation_time never change
pk_inner(t) ==
    /\ frames[t] = IdleFrame
    /\ CanLock(mutex)
    /\ frames' = [frames EXCEPT ![t] = PickleFrame("message_count", [pickle |-> session.inner, room_id |-> session.room_id, settings |-> session.settings, creation_time |-> session.creation_time, message_count |-> 0, shared |-> FALSE, invalidated |-> FALSE, shared_with_set |-> EmptyMap, requests |-> EmptyMap])]
    /\ UNCHANGED <<session, outbound_env, ret, conc_vars, igs, sm_vars, timeline, shared_at, input, attachment>>

\* message_count: self.message_count.load(Ordering::SeqCst)
pk_message_count(t) ==
    /\ frames[t].op = "pickle"
    /\ frames[t].at = "message_count"
    /\ frames' = [frames EXCEPT ![t] = PickleFrame("shared", [frames[t].pickled EXCEPT !.message_count = session.message_count])]
    /\ UNCHANGED <<session, outbound_env, ret, conc_vars, igs, sm_vars, timeline, shared_at, input, attachment>>

\* shared: self.shared()
pk_shared(t) ==
    /\ frames[t].op = "pickle"
    /\ frames[t].at = "shared"
    /\ frames' = [frames EXCEPT ![t] = PickleFrame("invalidated", [frames[t].pickled EXCEPT !.shared = session.shared])]
    /\ UNCHANGED <<session, outbound_env, ret, conc_vars, igs, sm_vars, timeline, shared_at, input, attachment>>

\* invalidated: self.invalidated()
pk_invalidated(t) ==
    /\ frames[t].op = "pickle"
    /\ frames[t].at = "invalidated"
    /\ frames' = [frames EXCEPT ![t] = PickleFrame("shared_with_set", [frames[t].pickled EXCEPT !.invalidated = session.invalidated])]
    /\ UNCHANGED <<session, outbound_env, ret, conc_vars, igs, sm_vars, timeline, shared_at, input, attachment>>

\* shared_with_set: the iteration over self.shared_with_set, collected
pk_shared_with_set(t) ==
    /\ frames[t].op = "pickle"
    /\ frames[t].at = "shared_with_set"
    /\ frames' = [frames EXCEPT ![t] = PickleFrame("requests", [frames[t].pickled EXCEPT !.shared_with_set = session.shared_with_set])]
    /\ UNCHANGED <<session, outbound_env, ret, conc_vars, igs, sm_vars, timeline, shared_at, input, attachment>>

\* requests: the iteration over self.to_share_with_set, collected; pickle
\* returns the PickledOutboundGroupSession
pk_requests(t) ==
    /\ frames[t].op = "pickle"
    /\ frames[t].at = "requests"
    /\ frames' = [frames EXCEPT ![t] = IdleFrame]
    /\ ret' = Ret("pickle", t, [frames[t].pickled EXCEPT !.requests = session.to_share_with_set])
    /\ UNCHANGED <<session, outbound_env, conc_vars, igs, sm_vars, timeline, shared_at, input, attachment>>

\* the thread that pickles; the other threads encrypt
PickleCalls == {1}

NextPickleConc ==
    \/ \E t \in Threads \ PickleCalls : enc_call(t)
    \/ \E t \in Threads \ PickleCalls : enc_lock(t)
    \/ \E t \in Threads \ PickleCalls : enc_fetch_add(t)
    \/ \E t \in Threads \ PickleCalls : enc_ratchet(t)
    \/ \E t \in Threads \ PickleCalls : enc_return(t)
    \/ \E recips \in RecipientSets : add_request(recips)
    \/ \E id \in RequestIds : mark_request_as_sent(id)
    \/ \E t \in PickleCalls : pk_inner(t)
    \/ \E t \in PickleCalls : pk_message_count(t)
    \/ \E t \in PickleCalls : pk_shared(t)
    \/ \E t \in PickleCalls : pk_invalidated(t)
    \/ \E t \in PickleCalls : pk_shared_with_set(t)
    \/ \E t \in PickleCalls : pk_requests(t)

SpecPickleConc == Init /\ [][NextPickleConc]_vars

----------------------------------------------------------------------------
\* Properties of the outbound group session (specification Spec).

Pending == DOMAIN session.to_share_with_set

\* C1 as stated: in every reachable state, shared() implies that the
\* pending-request map (to_share_with_set) is empty.
C1_SharedImpliesNoPending == session.shared => Pending = {}

\* C1, amended: whenever mark_request_as_sent turns shared from false to true,
\* the pending-request map is empty in the state it leaves.
C1_SharedSetOnEmptyPending == [][(ret'.op = "mark_request_as_sent" /\ ~session.shared /\ session'.shared) => DOMAIN session'.to_share_with_set = {}]_vars

C1_Witness == ret.op = "mark_request_as_sent" /\ ret.val = "sent" /\ session.shared /\ Pending = {} /\ next_uuid >= 2

\* C2: an encrypt call on a session whose shared flag is false produces no
\* ciphertext and does not advance the message counter.
C2_NoEncryptBeforeShared == [][(ret'.op = "encrypt" /\ ~session.shared) => (session'.message_count = session.message_count /\ session'.inner = session.inner)]_vars

\* C3: once invalidated is true, no later encrypt call produces a ciphertext
\* or advances the message counter.
C3_NoEncryptAfterInvalidated == [][(ret'.op = "encrypt" /\ session.invalidated) => (session'.message_count = session.message_count /\ session'.inner = session.inner)]_vars

\* C4: the message count never decreases under any operation, and every
\* encrypt call increases it by exactly one.
C4_MessageCountMonotone == [][session'.message_count >= session.message_count /\ (ret'.op = "encrypt" => session'.message_count = session.message_count + 1)]_vars

C4_Witness == ret.op = "encrypt" /\ session.message_count >= 2 /\ ret.val.ciphertext.index = 1

\* C7, one acknowledgement: mark_request_as_sent(id) for a pending id removes
\* exactly that request, records every ShareInfo of its tentative set in
\* shared_with_set, and leaves shared true iff it was true before or the
\* pending map is now empty.
C7_Ack(id) ==
    LET r == session.to_share_with_set[id]
    IN /\ DOMAIN session'.to_share_with_set = Pending \ {id}
       /\ \A o \in Pending \ {id} : session'.to_share_with_set[o] = session.to_share_with_set[o]
       /\ \A p \in PairsOf(r) : (p \in PairsOf(session'.shared_with_set) /\ session'.shared_with_set[p[1]][p[2]] = r[p[1]][p[2]])
       /\ session'.shared = (session.shared \/ DOMAIN session'.to_share_with_set = {})

\* C7, the outcome: once requests were added and none is pending any more,
\* shared is true and shared_with_set holds every recipient of every request.
C7_AllAcknowledged == (next_uuid > 0 /\ Pending = {}) => (session.shared /\ requested \subseteq PairsOf(session.shared_with_set))

\* C7: mark_request_as_sent for a pending id moves the request's tentative
\* set into shared_with_set, the session becomes shared exactly when that
\* leaves no request pending, and after all requests were acknowledged (in
\* any order) every recipient of every request is in shared_with_set.
C7_MarkRequestAsSent == [][\A id \in RequestIds : (ret'.op = "mark_request_as_sent" /\ ret'.arg = id /\ id \in Pending) => C7_Ack(id)]_vars /\ []C7_AllAcknowledged

C7_Witness == ret.op = "mark_request_as_sent" /\ ret.val = "sent" /\ next_uuid >= 2 /\ Pending = {} /\ session.shared /\ requested = Recipients /\ \E p \in Recipients : session.shared_with_set[p[1]][p[2]].message_index = 1

\* C8: mark_request_as_sent with a request id that is not pending (unknown,
\* or already acknowledged) returns normally and leaves shared, invalidated,
\* the message count, shared_with_set and the pending map unchanged.
C8_MarkSentIdempotent == [][\A id \in RequestIds : (ret'.op = "mark_request_as_sent" /\ ret'.arg = id /\ id \notin Pending) => (ret'.val = "not found" /\ session'.shared = session.shared /\ session'.invalidated = session.invalidated /\ session'.message_count = session.message_count /\ session'.shared_with_set = session.shared_with_set /\ session'.to_share_with_set = session.to_share_with_set)]_vars

C8_Witness == ret.op = "mark_request_as_sent" /\ ret.val = "not found" /\ ret.arg <= next_uuid /\ ~session.shared /\ Pending # {} /\ PairsOf(session.shared_with_set) # {}

----------------------------------------------------------------------------
\* Expiry (specification SpecExpiry): the session was created at clock 0, so
\* the time elapsed since creation is `now`.

OneHourMs == 60 * 60 * 1000

\* C6: expired() returns true exactly when message_count >= rotation_period_msgs
\* or the time elapsed since creation >= max(rotation_period, 1 hour); with a
\* rotation_period below one hour a session younger than one hour is not
\* expired by age.
C6_ExpiredExactly ==
    ret.op = "expired" =>
        /\ ret.val = (session.message_count >= session.settings.rotation_period_msgs \/ now >= Max(session.settings.rotation_period, OneHourMs))
        /\ ((session.settings.rotation_period < OneHourMs /\ now < OneHourMs /\ session.message_count < session.settings.rotation_period_msgs) => ret.val = FALSE)

C6_Witness == ret.op = "expired" /\ ret.val = FALSE /\ session.settings.rotation_period <= now /\ now > 0 /\ session.message_count > 0

----------------------------------------------------------------------------
\* Concurrent encrypt calls (specification SpecConc).

InCritical == {t \in Threads : pc[t] \in {"fetch_add", "ratchet", "unlock"}}

\* C5: under any interleaving of concurrent encrypt calls the ratchet indices
\* used are 0, 1, 2, ... in the order the calls acquired the mutex (distinct,
\* increasing, gap-free), and the fetch_add and the ratchet advance of a call
\* are not interleaved with those of another call: at most one call is
\* between lock and return, and the counter is ahead of the ratchet only by
\* the increment of that call.
C5_GapFreeIndices ==
    /\ Cardinality(InCritical) <= 1
    /\ \A t \in InCritical : mutex = t
    /\ Len(used) <= Len(acquired)
    /\ \A i \in 1..Len(used) : (used[i].index = i - 1 /\ used[i].thread = acquired[i])
    /\ session.message_count = session.inner.index + Cardinality({t \in Threads : pc[t] = "ratchet"})

C5_Witness == Len(used) >= 3 /\ used[1].thread # used[2].thread /\ \E t \in Threads : (pc[t] = "idle" /\ mutex # 0 /\ mutex # t)

----------------------------------------------------------------------------
\* Inbound decryption (specification SpecInbound).  ret.arg is the event
\* handed to decrypt, ret.val what decrypt returned.

\* the steps before the room check passed: Megolm scheme, a message of this
\* session at a known index, a plaintext that is a JSON object
ReachesRoomCheck(event) == event.scheme = MEGOLM_V1 /\ event.ciphertext.session_id = igs.session_id /\ event.ciphertext.index >= igs.first_known_index /\ event.ciphertext.plaintext.kind = "object"

\* C9: whenever decrypt returns Ok, the plaintext's room_id is the session's
\* room id, and sender, event_id and origin_server_ts of the returned event
\* are those of the outer encrypted event, whatever the plaintext declares.
C9_EnvelopeAttested ==
    (ret.op = "decrypt" /\ ret.val.ok) =>
        /\ ret.arg.ciphertext.plaintext.room_id = igs.room_id
        /\ ret.val.event.room_id = igs.room_id
        /\ ret.val.event.sender = ret.arg.sender
        /\ ret.val.event.event_id = ret.arg.event_id
        /\ ret.val.event.origin_server_ts = ret.arg.origin_server_ts

C9_Witness == ret.op = "decrypt" /\ ret.val.ok /\ ret.arg.ciphertext.plaintext.sender = "@mallory:x" /\ ret.arg.ciphertext.plaintext.event_id = "$forged" /\ ret.val.event.sender = "@alice:x" /\ ret.val.index = 1

\* a plaintext room_id that is absent, no string, no valid room id, or the
\* id of another room than the session's
RoomIdUnusable(obj) == obj.room_id = ABSENT \/ obj.room_id = OTHER_JSON \/ obj.room_id \notin ValidRoomIds \/ obj.room_id # igs.room_id

C10_RejectsMismatch == (ret.op = "decrypt" /\ ReachesRoomCheck(ret.arg) /\ RoomIdUnusable(ret.arg.ciphertext.plaintext)) => (~ret.val.ok /\ ret.val.err = "MismatchedRoom" /\ ret.val.event = NONE)

\* C10: decrypt returns MismatchedRoom and no event whenever the decrypted
\* plaintext (a JSON object) has no room_id, a room_id that is no valid room
\* id string, or a room_id other than the session's; and the session's room
\* id never changes.
C10_MismatchedRoom == []C10_RejectsMismatch /\ [][igs'.room_id = igs.room_id]_vars

C10_Witness == ret.op = "decrypt" /\ ReachesRoomCheck(ret.arg) /\ ret.val.err = "MismatchedRoom" /\ ret.arg.ciphertext.plaintext.room_id = RoomA /\ igs.room_id = RoomB

\* C11: the first-known index of an inbound group session never changes, in
\* the session's field and in its Olm session alike, across decrypt, export,
\* export_at_index and pickle/from_pickle cycles; and no export hands out a
\* key from before that index.
C11_FirstKnownIndexFixed == [][igs'.first_known_index = igs.first_known_index /\ igs'.inner.first_known_index = igs.inner.first_known_index /\ (ret'.op \in {"export", "export_at_index"} => ret'.val.session_key.index >= igs.first_known_index)]_vars

C11_Witness == ret.op = "from_pickle" /\ igs.first_known_index = 0 /\ igs.inner.latest_index > 0

----------------------------------------------------------------------------
\* Session manager (specification SpecSM).  After receive_keys_claim_response
\* ret.val is the report of the call: the sessions it created (device ->
\* session id), the sessions its dummies were encrypted with, what it saved
\* and what it returned.

\* a KeysClaimRequest (or None) names the device
Included(request, p) == IF request.some THEN (IF p[1] \in DOMAIN request.v.one_time_keys THEN p[2] \in DOMAIN request.v.one_time_keys[p[1]] ELSE FALSE) ELSE FALSE

\* an Olm session is stored for the device's curve25519 key
HasSession(p) == IF p \in DOMAIN store.devices THEN (IF store.devices[p] = NONE THEN FALSE ELSE IF store.devices[p] \in DOMAIN store.sessions THEN store.sessions[store.devices[p]] # <<>> ELSE FALSE) ELSE FALSE

\* the device has a session and is in no explicit claim entry
Served(p) == HasSession(p) /\ p \notin ClaimPairs(users_for_key_claim)

\* the step is a mark_device_as_wedged call that names device p by its key
WedgeStepOn(p) == ret'.op = "mark_device_as_wedged" /\ ret'.val.ok /\ p \in DOMAIN store.devices /\ ret'.arg = <<p[1], store.devices[p]>>

----------------------------------------------------------------------------
\* Properties of mark_device_as_wedged.

\* no device of the sender has the curve key
NoDeviceFor(sender, curve_key) == ~\E p \in DOMAIN store.devices : p[1] = sender /\ store.devices[p] = curve_key

\* no session is stored for the curve key: no list, or an empty one
NoStoredSession(curve_key) == IF curve_key \in DOMAIN store.sessions THEN store.sessions[curve_key] = <<>> ELSE TRUE

\* a session is stored for the curve key and every one of them, so also the
\* oldest, was created less than an hour ago
StoredSessionYounger(curve_key) == IF NoStoredSession(curve_key) THEN FALSE ELSE \A i \in 1..Len(store.sessions[curve_key]) : now - store.sessions[curve_key][i].creation_time < OneHourMs

\* C13: a mark_device_as_wedged(sender, curve_key) call whose store lookups
\* succeed returns Ok and leaves users_for_key_claim and wedged_devices as they
\* were when the sender has no device with that curve key, when no session is
\* stored for the device, or when its stored sessions are younger than one
\* hour.
C13_WedgingThrottle == [][\A a \in WedgeArgs : (mark_device_as_wedged(a[1], a[2], TRUE) /\ (NoDeviceFor(a[1], a[2]) \/ NoStoredSession(a[2]) \/ StoredSessionYounger(a[2]))) => (users_for_key_claim' = users_for_key_claim /\ wedged_devices' = wedged_devices /\ ret'.val = ResultOk("unit"))]_vars

\* mark_device_as_wedged returned Ok for B1, whose only session is younger
\* than an hour but older than the claim timeout, and B1 is not wedged
C13_Witness == ret.op = "mark_device_as_wedged" /\ ret.val.ok /\ ret.arg = <<"@bob:x", "curve:B1">> /\ ~NoDeviceFor("@bob:x", "curve:B1") /\ StoredSessionYounger("curve:B1") /\ now - store.sessions["curve:B1"][1].creation_time > KEY_CLAIM_TIMEOUT /\ B1 \notin ClaimPairs(wedged_devices) /\ B1 \notin ClaimPairs(users_for_key_claim)

\* a session is stored for the curve key and the oldest one was created more
\* than an hour ago
StoredSessionOlder(curve_key) == IF NoStoredSession(curve_key) THEN FALSE ELSE \E i \in 1..Len(store.sessions[curve_key]) : now - store.sessions[curve_key][i].creation_time > OneHourMs

\* the device of the sender that has the curve key
DeviceFor(sender, curve_key) == CHOOSE p \in DOMAIN store.devices : p[1] = sender /\ store.devices[p] = curve_key

\* the step is a receive_keys_claim_response call whose response names p
ClaimResponseFor(p) == \E r \in Responses : (p \in DOMAIN r /\ \E fail \in Fails(r) : receive_keys_claim_response(r, fail))

\* C14: mark_device_as_wedged puts a known device whose oldest stored session
\* was created more than an hour ago into users_for_key_claim and
\* wedged_devices; the device stays in both until a claim response naming it
\* is processed, and until then every get_missing_sessions call, whatever its
\* user list, includes it although a session for it is stored.
C14_WedgedIsClaimed == [][/\ (\A a \in WedgeArgs : (mark_device_as_wedged(a[1], a[2], TRUE) /\ ~NoDeviceFor(a[1], a[2]) /\ StoredSessionOlder(a[2])) => (DeviceFor(a[1], a[2]) \in ClaimPairs(users_for_key_claim') /\ DeviceFor(a[1], a[2]) \in ClaimPairs(wedged_devices'))) /\ (\A p \in ClaimPairs(wedged_devices) : (p \notin ClaimPairs(wedged_devices') \/ p \notin ClaimPairs(users_for_key_claim')) => ClaimResponseFor(p)) /\ ((ret'.op = "get_missing_sessions" /\ ret'.val.ok) => \A p \in ClaimPairs(wedged_devices) : (HasSession(p) /\ Included(ret'.val.val, p)))]_vars

\* get_missing_sessions of an empty user list returned a request that includes
\* the wedged device B1, for which a session is stored
C14_Witness == ret.op = "get_missing_sessions" /\ ret.val.ok /\ ret.arg = {} /\ B1 \in ClaimPairs(wedged_devices) /\ HasSession(B1) /\ Included(ret.val.val, B1)

----------------------------------------------------------------------------
\* Properties of receive_keys_claim_response.

\* request q carries an encrypted m.dummy event for device p
DummyFor(q, p) == q.user_id = p[1] /\ q.device_id = p[2] /\ q.event_type = "m.room.encrypted" /\ q.content.plaintext_type = "m.dummy"

\* a dummy request for p is in the outgoing queue after the step
DummyQueued(p) == \E id \in DOMAIN outgoing_to_device_requests' : DummyFor(outgoing_to_device_requests'[id], p)

\* the step put no request for p into the outgoing queue
NothingQueued(p) == \A id \in DOMAIN outgoing_to_device_requests' \ DOMAIN outgoing_to_device_requests : (outgoing_to_device_requests'[id].user_id # p[1] \/ outgoing_to_device_requests'[id].device_id # p[2])

C16_ClaimEntryConsumed == [][ret'.op = "receive_keys_claim_response" => \A p \in DOMAIN ret'.val.created \cap ClaimPairs(wedged_devices) : (p \in ClaimPairs(users_for_key_claim) /\ p \notin ClaimPairs(users_for_key_claim') /\ ((ret'.val.result = "Ok" /\ ClaimPairs(users_for_key_claim') = {} /\ MissingOfUsers(store', {p[1]}) \ {p} = {}) => ~GetMissingSessions(store', {p[1]}, users_for_key_claim').some))]_vars

\* get_missing_sessions({bob}) returned None after B1, wedged with two stored
\* sessions, got a third one from a claim response
C16_Witness == ret.op = "get_missing_sessions" /\ ret.val.ok /\ ret.arg = {"@bob:x"} /\ ~ret.val.val.some /\ store.devices = StoreTwoSessions.devices /\ Len(store.sessions["curve:B1"]) = 3 /\ next_uuid = 1

\* C17: the dummy request queued for a wedged device by a
\* receive_keys_claim_response call is encrypted with the session the call
\* created for that device, not with a session stored before the call.
C17_DummyUsesNewSession == [][ret'.op = "receive_keys_claim_response" => \A p \in DOMAIN ret'.val.dummy : \A id \in DOMAIN outgoing_to_device_requests' \ DOMAIN outgoing_to_device_requests : DummyFor(outgoing_to_device_requests'[id], p) => (outgoing_to_device_requests'[id].content.session_id = ret'.val.created[p] /\ outgoing_to_device_requests'[id].content.session_id \notin SessionIds(store.sessions[store.devices[p]]))]_vars

\* the response names device p, the store knows p with a curve25519 key, the
\* one-time key for p is valid and the lookup of p did not return an error
Servable(p) == IF p \in DOMAIN ret'.arg /\ p \in DOMAIN store.devices THEN (store.devices[p] # NONE /\ ret'.arg[p] = "valid" /\ <<"lookup", p>> \notin ret'.val.logged) ELSE FALSE

\* the session the call created for p is stored after the step
Persisted(p) == ret'.val.created[p] \in SessionIds(store'.sessions[store.devices[p]])

\* the step is the call with the response it got and a save_changes that
\* returned an error
SaveFailed == receive_keys_claim_response(ret'.arg, <<"save_changes", NoPair>>) \/ receive_keys_claim_response(ret'.arg, <<"save_keyshare", NoPair>>)

\* C19: whatever happens to the other devices of a response (unknown device,
\* failed lookup, no session from the key, failed unwedging step), a
\* receive_keys_claim_response call creates a session for every device it can
\* serve and persists it when its save_changes succeeds; it returns an error
\* only when a save_changes returned one.
C19_FailuresContained == [][ret'.op = "receive_keys_claim_response" => ((\A p \in Recipients : Servable(p) => (p \in DOMAIN ret'.val.created /\ (ret'.val.saves >= 1 => Persisted(p)))) /\ (ret'.val.result = "Err" => SaveFailed) /\ (ret'.val.result = "Ok" => ret'.val.saves >= 1))]_vars

\* the lookup of B1 failed, and the call returned Ok with a session for B2
\* created and stored
C19_Witness == ret.op = "receive_keys_claim_response" /\ ret.val.result = "Ok" /\ DOMAIN ret.arg = {B1, B2} /\ <<"lookup", B1>> \in ret.val.logged /\ DOMAIN ret.val.created = {B2} /\ HasSession(B2) /\ ret.val.created[B2] \in SessionIds(store.sessions["curve:B2"])

\* the session state a call produced: the sessions it created and the
\* sessions its retried key shares were encrypted with
Produced(c) == {<<"new", id>> : id \in SessionIds(c.changes)} \cup {<<"keyshare", id>> : id \in c.keyshare}

\* C20: what a receive_keys_claim_response call produced is persisted by one
\* save_changes, all of it or none of it.
C20_PersistedAsOneUnit == [][ret'.op = "receive_keys_claim_response" => ((ret'.val.persisted = {} \/ ret'.val.persisted = Produced(ret'.val)) /\ ret'.val.saves <= 1)]_vars

----------------------------------------------------------------------------
\* Properties of get_missing_sessions.

\* the (user, device) pairs of a claim request
RequestPairs(request) == {p \in Recipients : Included(Some(request), p)}

\* the devices of the listed users that have a curve25519 key and no stored
\* session, and the pairs of users_for_key_claim
ExpectedMissing(users) == {p \in DOMAIN store.devices : p[1] \in users /\ store.devices[p] # NONE /\ NoStoredSession(store.devices[p])} \cup ClaimPairs(users_for_key_claim)

\* the request names exactly the expected pairs, each with signed_curve25519,
\* no user without a device, and has a timeout of 10 seconds
WellFormedRequest(request, expected) ==
    /\ RequestPairs(request) = expected
    /\ \A u \in DOMAIN request.one_time_keys : (u \in SmUsers /\ DOMAIN request.one_time_keys[u] # {})
    /\ \A u \in DOMAIN request.one_time_keys : (\A d \in DOMAIN request.one_time_keys[u] : (<<u, d>> \in Recipients /\ request.one_time_keys[u][d] = "signed_curve25519"))
    /\ request.timeout = 10 * 1000

\* C18: get_missing_sessions(users) returns None exactly when no device of a
\* listed user with a curve25519 key lacks a session and users_for_key_claim
\* is empty; otherwise its request maps exactly those devices and the pairs
\* of users_for_key_claim to signed_curve25519, with a timeout of 10 seconds.
C18_MissingExactly == [][(ret'.op = "get_missing_sessions" /\ ret'.val.ok) => ((ret'.val.val.some <=> ExpectedMissing(ret'.arg) # {}) /\ (ret'.val.val.some => WellFormedRequest(ret'.val.val.v, ExpectedMissing(ret'.arg))))]_vars

\* get_missing_sessions of all users returned a request for B1 that leaves
\* out carol's device, which has no curve25519 key and no session
C18_Witness == ret.op = "get_missing_sessions" /\ ret.val.ok /\ ret.arg = SmUsers /\ store.devices = StoreFresh.devices /\ store.sessions = EmptyMap /\ ret.val.val.some /\ RequestPairs(ret.val.val.v) = {B1} /\ users_for_key_claim = EmptyMap

----------------------------------------------------------------------------
\* Properties of the end-to-end round trip (specification SpecE2E).

\* the timeline entries of the event that was decrypted in this step
DecryptedEntries == {i \in 1..Len(timeline) : timeline[i].event = ret'.arg}

\* C21: when an inbound session made from the outbound session's
\* session_key() for the same room decrypts an event the outbound session
\* encrypted after the key was taken, the call succeeds, the decrypted
\* event has the content and type that were encrypted, the returned index
\* is the outbound session's message index just before the encrypt, and the
\* inbound session's first known index is not above it.
C21_RoundTrip == [][ret'.op = "decrypt" => \A i \in DecryptedEntries : ((i > shared_at /\ igs.room_id = session.room_id) => (ret'.val.ok /\ ret'.val.event.content = timeline[i].content /\ ret'.val.event.type = timeline[i].type /\ ret'.val.index = timeline[i].index /\ ret'.val.index = i - 1 /\ igs.first_known_index <= ret'.val.index /\ igs'.first_known_index <= ret'.val.index))]_vars

\* the third message, a content with a relation, was decrypted by a session
\* made after the first message: index 2, first known index 1
C21_Witness == ret.op = "decrypt" /\ ret.val.ok /\ ret.val.index = 2 /\ shared_at = 1 /\ igs.first_known_index = 1 /\ Len(timeline) = 3 /\ ret.arg = timeline[3].event /\ ret.val.event.content = JsonContent("object", "hello", "$rel") /\ timeline[3].content = JsonContent("object", "hello", "$rel")

----------------------------------------------------------------------------
\* Properties of the short authentication string (specification
\* SpecSasBytes).

\* bit k (0 = lowest) of the big-endian concatenation of the bytes
BitOf(bytes, k) == (bytes[Len(bytes) - (k \div 8)] \div 2^(k % 8)) % 2

\* the value of the `width` bits from bit `top` downwards
RECURSIVE BitSlice(_, _, _)
BitSlice(bytes, top, width) == IF width = 0 THEN 0 ELSE BitOf(bytes, top) * 2^(width - 1) + BitSlice(bytes, top - 1, width - 1)

\* every element of the sequence is v
AllAre(seq, v) == \A i \in 1..Len(seq) : seq[i] = v

\* C22: bytes_to_emoji_index of six bytes returns seven indices, the i-th
\* (from 0) being bits 47-6i .. 42-6i of the 48-bit big-endian value, each in
\* 0..63; bytes_to_emoji never panics; six zero bytes give seven times 0 and
\* six 0xFF bytes seven times 63.
C22_EmojiIndices ==
    /\ (ret.op = "bytes_to_emoji_index" => (Len(ret.val) = 7 /\ (\A i \in 0..6 : (ret.val[i + 1] = BitSlice(ret.arg, 47 - 6 * i, 6) /\ ret.val[i + 1] \in 0..63))))
    /\ (ret.op = "bytes_to_emoji_index" => ((AllAre(ret.arg, 0) => AllAre(ret.val, 0)) /\ (AllAre(ret.arg, 255) => AllAre(ret.val, 63))))
    /\ (ret.op = "bytes_to_emoji" => (Len(ret.val) = 7 /\ (\A i \in 1..7 : ~ret.val[i].panic)))

\* six bytes with alternating bit patterns gave seven different-looking
\* indices
C22_Witness == ret.op = "bytes_to_emoji_index" /\ ret.arg = <<170, 85, 1, 255, 0, 170>> /\ ret.val = <<42, 37, 20, 1, 63, 48, 2>>

\* C23: bytes_to_decimal of five bytes returns three values, the k-th (from
\* 0) being 1000 plus bits 39-13k .. 27-13k of the 40-bit big-endian value,
\* each in 1000..9191; five zero bytes give (1000, 1000, 1000) and five 0xFF
\* bytes (9191, 9191, 9191).
C23_Decimals == ret.op = "bytes_to_decimal" => (Len(ret.val) = 3 /\ (\A k \in 0..2 : (ret.val[k + 1] = 1000 + BitSlice(ret.arg, 39 - 13 * k, 13) /\ ret.val[k + 1] \in 1000..9191)) /\ (AllAre(ret.arg, 0) => AllAre(ret.val, 1000)) /\ (AllAre(ret.arg, 255) => AllAre(ret.val, 9191)))

C23_Witness == ret.op = "bytes_to_decimal" /\ ret.arg = <<170, 255, 1, 255, 85>> /\ ret.val = <<6471, 8175, 9106>>

----------------------------------------------------------------------------
\* Properties of the info strings (specification SpecSasInfo).

\* C24: the info of the short authentication string computed by the party
\* that started the flow (we_started = TRUE) equals the one computed by the
\* other party (we_started = FALSE), and is
\* MATRIX_KEY_VERIFICATION_SAS|uidA|didA|pubA|uidB|didB|pubB|flow_id.
C24_InitiatorFirst == ret.op = "extra_info_sas" => (ret.val.started = ret.val.accepted /\ ret.val.accepted = <<"MATRIX_KEY_VERIFICATION_SAS", "|">> \o ret.arg.a.user_id \o <<"|">> \o ret.arg.a.device_id \o <<"|">> \o ret.arg.a.pubkey \o <<"|">> \o ret.arg.b.user_id \o <<"|">> \o ret.arg.b.device_id \o <<"|">> \o ret.arg.b.pubkey \o <<"|">> \o ret.arg.flow_id)

C24_Witness == ret.op = "extra_info_sas" /\ ret.arg.a # ret.arg.b /\ ret.val.accepted = <<"MATRIX_KEY_VERIFICATION_SAS", "|", "@", "a", ":", "b", "c", "|", "E", "|", "Q", "|", "@", "a", ":", "b", "|", "c", "D", "|", "P", "|", "g", "h">>

\* the user and the device of a party, which is all the MAC info holds of it
WhoIs(p) == <<p.user_id, p.device_id>>

\* C25 as stated: the info x sends its MAC with equals the info y checks it
\* with, and differs from the info of the opposite direction whenever x and y
\* differ.
C25_SenderFirst == ret.op = "extra_mac_info" => (ret.val.send = ret.val.receive /\ (WhoIs(ret.arg.x) # WhoIs(ret.arg.y) => ret.val.send # ret.val.opposite))

\* C25, amended: the info x sends its MAC with equals the info y checks it
\* with, and differs from the info of the opposite direction whenever the
\* user id followed by the device id of x and that of y are different
\* strings of the same length.
C25_SenderFirstUnlessAmbiguous == ret.op = "extra_mac_info" => (ret.val.send = ret.val.receive /\ ((ret.arg.x.user_id \o ret.arg.x.device_id # ret.arg.y.user_id \o ret.arg.y.device_id /\ Len(ret.arg.x.user_id \o ret.arg.x.device_id) = Len(ret.arg.y.user_id \o ret.arg.y.device_id)) => ret.val.send # ret.val.opposite))

\* two devices of one user exchanged MACs, each direction with its own info
C25_Witness == ret.op = "extra_mac_info" /\ ret.arg.x.user_id = ret.arg.y.user_id /\ ret.arg.x.device_id = <<"D">> /\ ret.arg.y.device_id = <<"E">> /\ ret.val.send = ret.val.receive /\ ret.val.send # ret.val.opposite /\ ret.val.send = <<"MATRIX_KEY_VERIFICATION_MAC", "@", "a", ":", "b", "D", "@", "a", ":", "b", "E", "g", "h">>

----------------------------------------------------------------------------
\* Properties of receive_mac_event (specification SpecSasMac).

\* the info the receiver checks with, from the ids of the call
InfoOf(arg) == <<"MATRIX_KEY_VERIFICATION_MAC">> \o arg.ids.other_device.user_id \o arg.ids.other_device.device_id \o arg.ids.account.user_id \o arg.ids.account.device_id \o arg.flow_id

\* the key the receiver knows for a key id of the event: a key of the other
\* device, else a key of the master key of the other identity; <<>> if none
KnownKey(arg, key_id) ==
    IF ~ParsesAsKeyId(key_id) THEN <<>>
    ELSE IF key_id \in DOMAIN arg.ids.other_device.keys THEN arg.ids.other_device.keys[key_id]
    ELSE IF arg.ids.other_identity.some /\ key_id \in DOMAIN arg.ids.other_identity.v.master_key THEN arg.ids.other_identity.v.master_key[key_id]
    ELSE <<>>

\* the MAC of the event for the key id is the MAC of the key we know
KeyMacMatches(arg, key_id) == KnownKey(arg, key_id) # <<>> /\ arg.content.mac[key_id] = [secret |-> OurSas, message |-> KnownKey(arg, key_id), info |-> InfoOf(arg) \o key_id]
KeyMacDiffers(arg, key_id) == KnownKey(arg, key_id) # <<>> /\ arg.content.mac[key_id] # [secret |-> OurSas, message |-> KnownKey(arg, key_id), info |-> InfoOf(arg) \o key_id]

\* the keys field of the event is the MAC of the sorted, comma-joined ids
KeysFieldMatches(arg) == arg.content.keys = [secret |-> OurSas, message |-> JoinKeyIds(SortedKeyIds(DOMAIN arg.content.mac)), info |-> InfoOf(arg) \o <<"KEY_IDS">>]

\* the device key ids and the master key ids of the event whose MAC matched
MatchedDeviceKeys(arg) == {k \in DOMAIN arg.content.mac : k \in DOMAIN arg.ids.other_device.keys /\ KeyMacMatches(arg, k)}
MatchedMasterKeys(arg) == {k \in DOMAIN arg.content.mac : k \notin DOMAIN arg.ids.other_device.keys /\ KeyMacMatches(arg, k)}

\* C26: receive_mac_event returns Err(KeyMismatch) if the MAC over the
\* sorted, comma-joined key ids under info + KEY_IDS differs from the keys
\* field, or if the MAC of a key of the mac map differs from the MAC computed
\* for it; when it returns Ok, the verified devices are the other device, once
\* per device key whose MAC matched, and the verified identities the other
\* identity, once per master key whose MAC matched.
C26_MacMismatchCancels ==
    ret.op = "receive_mac_event" =>
        /\ (~KeysFieldMatches(ret.arg) => (~ret.val.ok /\ ret.val.code = "KeyMismatch"))
        /\ ((\E k \in DOMAIN ret.arg.content.mac : KeyMacDiffers(ret.arg, k)) => (~ret.val.ok /\ ret.val.code = "KeyMismatch"))
        /\ (ret.val.ok => (/\ \A i \in 1..Len(ret.val.devices) : ret.val.devices[i] = ret.arg.ids.other_device
                           /\ Len(ret.val.devices) = Cardinality(MatchedDeviceKeys(ret.arg))
                           /\ \A i \in 1..Len(ret.val.identities) : (ret.arg.ids.other_identity.some /\ ret.val.identities[i] = ret.arg.ids.other_identity.v)
                           /\ Len(ret.val.identities) = Cardinality(MatchedMasterKeys(ret.arg))))

\* an event whose keys field matched and whose master key MAC did not was
\* refused
C26_Witness == ret.op = "receive_mac_event" /\ ~ret.val.ok /\ ret.val.code = "KeyMismatch" /\ KeysFieldMatches(ret.arg) /\ DOMAIN ret.arg.content.mac = MacKeyIds /\ KeyMacMatches(ret.arg, SenderKeyId) /\ KeyMacDiffers(ret.arg, MasterKeyId)

----------------------------------------------------------------------------
\* Properties of the commitment (specification SpecCommitment).

\* the canonical JSON text of the start content of the test
TestCanonicalJson == <<"{", "\"", "f", "r", "o", "m", "_", "d", "e", "v", "i", "c", "e", "\"", ":", "\"", "X", "O", "W", "L", "H", "H", "F", "S", "W", "M", "\"", ",", "\"", "h", "a", "s", "h", "e", "s", "\"", ":", "[", "\"", "s", "h", "a", "2", "5", "6", "\"", "]", ",", "\"", "k", "e", "y", "_", "a", "g", "r", "e", "e", "m", "e", "n", "t", "_", "p", "r", "o", "t", "o", "c", "o", "l", "s", "\"", ":", "[", "\"", "c", "u", "r", "v", "e", "2", "5", "5", "1", "9", "-", "h", "k", "d", "f", "-", "s", "h", "a", "2", "5", "6", "\"", ",", "\"", "c", "u", "r", "v", "e", "2", "5", "5", "1", "9", "\"", "]", ",", "\"", "m", "e", "s", "s", "a", "g", "e", "_", "a", "u", "t", "h", "e", "n", "t", "i", "c", "a", "t", "i", "o", "n", "_", "c", "o", "d", "e", "s", "\"", ":", "[", "\"", "h", "k", "d", "f", "-", "h", "m", "a", "c", "-", "s", "h", "a", "2", "5", "6", "\"", ",", "\"", "h", "m", "a", "c", "-", "s", "h", "a", "2", "5", "6", "\"", "]", ",", "\"", "m", "e", "t", "h", "o", "d", "\"", ":", "\"", "m", ".", "s", "a", "s", ".", "v", "1", "\"", ",", "\"", "s", "h", "o", "r", "t", "_", "a", "u", "t", "h", "e", "n", "t", "i", "c", "a", "t", "i", "o", "n", "_", "s", "t", "r", "i", "n", "g", "\"", ":", "[", "\"", "d", "e", "c", "i", "m", "a", "l", "\"", ",", "\"", "e", "m", "o", "j", "i", "\"", "]", ",", "\"", "t", "r", "a", "n", "s", "a", "c", "t", "i", "o", "n", "_", "i", "d", "\"", ":", "\"", "b", "Y", "x", "B", "s", "i", "r", "j", "U", "J", "O", "9", "o", "s", "a", "r", "6", "S", "T", "4", "i", "2", "M", "2", "N", "j", "r", "Y", "L", "A", "7", "l", "\"", "}">>

\* the text is an object whose keys ascend strictly by their bytes
RECURSIVE KeysAscend(_)
KeysAscend(members) == Len(members) < 2 \/ (LexLess(members[1][1], members[2][1]) /\ KeysAscend(Tail(members)))

\* C27: calculate_commitment(pk, start) is the base64 of the SHA-256 of pk
\* followed by the canonical JSON of start; for the public key and the start
\* content of the test it is CCQmB4JCdB0FW21FdAnHj/Hu8+W9+Nb0vgwPEnZZQ4g.
C27_Commitment ==
    /\ (ret.op = "calculate_commitment" => ret.val = Base64(Sha256(Bytes(ret.arg.public_key \o CanonicalJson(ret.arg.content)))))
    /\ ((ret.op = "calculate_commitment" /\ ret.arg.public_key = TestPublicKey /\ ret.arg.content = TestStartContent) => ret.val = TestCommitment)
    /\ (ret.op = "canonical_json" => (\E sorted \in {SortSeq(ret.arg, LAMBDA x, y : LexLess(x[1], y[1]))} : (KeysAscend(sorted) /\ ret.val = JsonObjectText(sorted))))
    /\ ((ret.op = "canonical_json" /\ ret.arg = TestStartContent) => ret.val = TestCanonicalJson)

C27_Witness == ret.op = "calculate_commitment" /\ ret.arg.public_key = TestPublicKey /\ ret.arg.content = TestStartContent /\ ret.val = TestCommitment /\ Len(ret.val) = 43

----------------------------------------------------------------------------
\* Properties of encrypted attachments (specification SpecAttachment).

\* C28: whatever the bytes and whatever the lengths of the buffers of the
\* read calls, the hash that finish() returns is the hash of the whole
\* ciphertext, the decryptor never meets an invalid hash, and when it has been
\* read to the end the plaintext it gave is the original and the last read
\* returned 0.
C28_RoundTrip ==
    /\ attachment.stage # "panicked"
    /\ (attachment.info.some => (attachment.encrypted = [i \in 1..Len(attachment.data) |-> BitXor(attachment.data[i], KeyStream(attachment.key, attachment.iv, i - 1))] /\ attachment.info.v.hashes.v.base64.sha256 = attachment.encrypted))
    /\ (attachment.stage = "done" => (attachment.decrypted = attachment.data /\ ret.op = "decryptor_read" /\ ret.val = 0))

----------------------------------------------------------------------------
\* Properties of the power level (specification SpecPower).

\* C29: normalized_power_level is between 0 and 100, whatever the power level
\* of the member (own entry, users_default, or the fallback for creator and
\* others) and whatever max_power_level.
C29_NormalizedRange == ret.op = "normalized_power_level" => ret.val \in 0..100

----------------------------------------------------------------------------
\* Properties of is_shared_with (specification SpecShared).

\* the record of the queried device in shared_with_set and in the pending
\* requests
HasSharedRecord(device) == device.user_id \in DOMAIN session.shared_with_set /\ device.device_id \in DOMAIN session.shared_with_set[device.user_id]
PendingRecords(device) == {session.to_share_with_set[id][device.user_id][device.device_id] : id \in {i \in DOMAIN session.to_share_with_set : device.user_id \in DOMAIN session.to_share_with_set[i] /\ device.device_id \in DOMAIN session.to_share_with_set[i][device.user_id]}}
KeyIsCurrent(record, device) == device.curve25519.some /\ device.curve25519.v = record.sender_key

\* what the claim says the answer is, given the record it is taken from
AnswerFrom(record, device, answer) == IF KeyIsCurrent(record, device) THEN answer = [state |-> "Shared", message_index |-> record.message_index] ELSE answer = [state |-> "SharedButChangedSenderKey"]

\* C30: is_shared_with(device) answers from the record of the device in
\* shared_with_set if there is one: Shared(i) with the recorded index if the
\* recorded sender key is the device's current curve25519 key,
\* SharedButChangedSenderKey if it differs or the device has none; otherwise
\* from a record of the device in a pending request, by the same comparison;
\* and NotShared exactly if the device is in neither.
C30_IsSharedWith ==
    ret.op = "is_shared_with" =>
        /\ (HasSharedRecord(ret.arg) => AnswerFrom(session.shared_with_set[ret.arg.user_id][ret.arg.device_id], ret.arg, ret.val))
        /\ ((~HasSharedRecord(ret.arg) /\ PendingRecords(ret.arg) # {}) => \E record \in PendingRecords(ret.arg) : AnswerFrom(record, ret.arg, ret.val))
        /\ (ret.val = [state |-> "NotShared"] <=> (~HasSharedRecord(ret.arg) /\ PendingRecords(ret.arg) = {}))

\* the device is recorded as shared from index 0 and a pending request holds
\* it from index 1: the answer is Shared(0)
C30_Witness == ret.op = "is_shared_with" /\ HasSharedRecord(ret.arg) /\ ret.val = [state |-> "Shared", message_index |-> 0] /\ \E record \in PendingRecords(ret.arg) : record.message_index = 1

----------------------------------------------------------------------------
\* The order of the checks of decrypt (specification SpecInbound).

\* the first check of decrypt an event fails, NONE when it passes them all
FirstFailingCheck(event) ==
    IF event.scheme # MEGOLM_V1 THEN "UnsupportedAlgorithm"
    ELSE IF event.ciphertext.session_id # igs.session_id \/ event.ciphertext.index < igs.first_known_index THEN "OlmGroupSessionError"
    ELSE IF event.ciphertext.plaintext.kind = "invalid" THEN "JsonError"
    ELSE IF event.ciphertext.plaintext.kind # "object" THEN "NotAnObject"
    ELSE IF RoomIdUnusable(event.ciphertext.plaintext) THEN "MismatchedRoom"
    ELSE NONE

C31_FirstFailureDecides ==
    ret.op = "decrypt" =>
        /\ ret.val.ok <=> FirstFailingCheck(ret.arg) = NONE
        /\ ~ret.val.ok => (ret.val.err = FirstFailingCheck(ret.arg) /\ ret.val.event = NONE)
        /\ ret.val.ok => ret.val.index = ret.arg.ciphertext.index

\* C31: decrypt applies its checks in a fixed order and the first failing
\* one gives the result: another scheme than Megolm gives
\* UnsupportedAlgorithm and the Olm session is not touched, then a
\* ciphertext that does not decrypt, then a plaintext that is no JSON, then
\* a plaintext that is no object (NotAnObject), then a room id that is
\* absent or another room's (MismatchedRoom); a message index is returned
\* only when all checks pass.
C31_CheckOrder == []C31_FirstFailureDecides /\ [][(ret'.op = "decrypt" /\ ret'.arg.scheme # MEGOLM_V1) => igs' = igs]_vars

C31_Witness == ret.op = "decrypt" /\ ret.arg.scheme = MEGOLM_V1 /\ ret.arg.ciphertext.index < igs.first_known_index /\ ret.arg.ciphertext.plaintext.kind = "invalid" /\ ret.val.err = "OlmGroupSessionError"

----------------------------------------------------------------------------
\* get_missing_sessions reads only (specification SpecSM).

\* C32: get_missing_sessions leaves users_for_key_claim, wedged_devices, the
\* outgoing request queue and the store as they are, whether it returns None,
\* a request or an error; and a call that follows a call with the same users
\* returns the same claim map.
C32_GetMissingSessionsReadsOnly ==
    [][ret'.op = "get_missing_sessions" =>
        /\ users_for_key_claim' = users_for_key_claim
        /\ wedged_devices' = wedged_devices
        /\ outgoing_to_device_requests' = outgoing_to_device_requests
        /\ store' = store
        /\ (ret.op = "get_missing_sessions" /\ ret.val.ok /\ ret'.val.ok /\ ret'.arg = ret.arg) => ret'.val.val = ret.val.val]_vars

C32_Witness == ret.op = "get_missing_sessions" /\ ret.val.ok /\ ret.val.val.some /\ ret.arg = {} /\ RequestPairs(ret.val.val.v) = {B1, B2} /\ ClaimPairs(users_for_key_claim) = {B1, B2} /\ B1 \in ClaimPairs(wedged_devices)

----------------------------------------------------------------------------
\* The flags of the outbound group session (specification Spec).

\* the session as OutboundGroupSession::new leaves it
C33_NewIsBlank == ret.op = "new" => (~session.shared /\ ~session.invalidated /\ session.message_count = 0 /\ session.shared_with_set = EmptyMap /\ session.to_share_with_set = EmptyMap)

\* C33: once shared() is true it stays true and once invalidated() is true
\* it stays true under every later operation, session id and room id never
\* change, and a new session starts not shared, not invalidated, with message
\* count 0 and with empty shared_with_set and pending map.
C33_FlagsMonotone == []C33_NewIsBlank /\ [][(session.shared => session'.shared) /\ (session.invalidated => session'.invalidated) /\ session'.session_id = session.session_id /\ session'.room_id = session.room_id]_vars

C33_Witness == ret.op = "mark_request_as_sent" /\ ret.val = "sent" /\ session.shared /\ session.invalidated /\ DOMAIN session.to_share_with_set # {} /\ session.message_count > 0

----------------------------------------------------------------------------
\* mark_request_as_sent and is_shared_with interleaved (specification
\* SpecSharedConc).  ret.arg of an is_shared_with call is the device and
\* whether it had been put into a request when the call was made.

\* the pairs recorded in shared_with_set or in a pending request
Findable == PairsOf(session.shared_with_set) \cup UNION {PairsOf(session.to_share_with_set[id]) : id \in DOMAIN session.to_share_with_set}

\* every device ever put into a request is in a pending request or in
\* shared_with_set
C34_AlwaysFindable == requested \subseteq Findable

\* no device that was put into a request with the sender key it still has is
\* reported as NotShared
C34_NeverNotShared == (ret.op = "is_shared_with" /\ ret.arg.was_requested /\ ret.arg.device.curve25519 = Some(CurveKey(ret.arg.device.user_id, ret.arg.device.device_id))) => ret.val # NotShared

\* when the session is shared, the recipients of every request taken out of
\* the pending map are in shared_with_set
C34_SharedAfterRecorded == session.shared => \A t \in Threads : frames[t].op = "mark_request_as_sent" => PairsOf(frames[t].r) \subseteq PairsOf(session.shared_with_set)

\* C34: under any interleaving of mark_request_as_sent with is_shared_with
\* and with mark_request_as_sent for other request ids, a device recorded
\* with its current sender key in a pending request is at every instant in
\* the pending request or in shared_with_set and is never reported as
\* NotShared, and whenever shared() is true the recipients of every
\* acknowledged request are already in shared_with_set.
C34_NoLostRecipient == C34_AlwaysFindable /\ C34_NeverNotShared /\ C34_SharedAfterRecorded

----------------------------------------------------------------------------
\* pickle next to the other calls (specification SpecPickleConc).  ret.val
\* of a pickle call that returned is the PickledOutboundGroupSession.

PickleReturned == ret.op = "pickle"

\* the pickled message count is the message index of the pickled ratchet
C35_CountMatchesRatchet == PickleReturned => ret.val.message_count = ret.val.pickle.index

\* a pickle that says shared holds no pending request
C35_SharedWithoutRequests == PickleReturned => (ret.val.shared => DOMAIN ret.val.requests = {})

\* from_pickle reproduces the pickled fields
C35_Restores == PickleReturned => (FromPickle(ret.val).room_id = ret.val.room_id /\ FromPickle(ret.val).message_count = ret.val.message_count /\ FromPickle(ret.val).shared = ret.val.shared /\ FromPickle(ret.val).invalidated = ret.val.invalidated /\ FromPickle(ret.val).shared_with_set = ret.val.shared_with_set /\ FromPickle(ret.val).to_share_with_set = ret.val.requests /\ FromPickle(ret.val).inner = ret.val.pickle)

\* C35: a pickle taken while encrypt, mark_request_as_sent or add_request
\* run is a snapshot of one state: its message count is the message index of
\* its ratchet, its shared flag implies that it holds no pending request,
\* and from_pickle reproduces room id, message count, shared, invalidated,
\* shared_with_set and the pending requests.
C35_ConsistentPickle == C35_CountMatchesRatchet /\ C35_SharedWithoutRequests /\ C35_Restores

----------------------------------------------------------------------------
\* mark_device_as_wedged and the session list (specification SpecSM).

\* C36: mark_device_as_wedged leaves the order of the device's shared Olm
\* session list alone: after the call, marked or not, the first session of
\* the list get_sessions returns for the sender key is the one that was
\* first before the call.
C36_FirstSessionKept == [][(ret'.op = "mark_device_as_wedged" /\ ret'.val.ok /\ GetSessions(store, ret'.arg[2]).some /\ GetSessions(store, ret'.arg[2]).v # <<>>) => (GetSessions(store', ret'.arg[2]).some /\ Head(GetSessions(store', ret'.arg[2]).v) = Head(GetSessions(store, ret'.arg[2]).v))]_vars

\* some stored session with the key is younger than one hour
AnySessionYounger(curve_key) == IF NoStoredSession(curve_key) THEN FALSE ELSE \E i \in 1..Len(store.sessions[curve_key]) : now - store.sessions[curve_key][i].creation_time < OneHourMs

\* C37: wedging is throttled per device: when any stored Olm session of the
\* device was created less than one hour ago, mark_device_as_wedged adds the
\* device neither to users_for_key_claim nor to wedged_devices.
C37_ThrottledByAnySession == [][\A a \in WedgeArgs : (mark_device_as_wedged(a[1], a[2], TRUE) /\ ~NoDeviceFor(a[1], a[2]) /\ AnySessionYounger(a[2])) => (users_for_key_claim' = users_for_key_claim /\ wedged_devices' = wedged_devices)]_vars

\* the dummy requests for p the step put into the outgoing queue
NewDummies(p) == {id \in DOMAIN outgoing_to_device_requests' \ DOMAIN outgoing_to_device_requests : DummyFor(outgoing_to_device_requests'[id], p)}

\* C38: an unwedging is never lost: for a device that is in wedged_devices
\* when receive_keys_claim_response creates a session for it, after the call
\* a dummy request for the device has been queued or the device is still in
\* wedged_devices, also when the lookup or the encryption of
\* check_if_unwedged fails; the call queues at most one dummy per device.
C38_UnwedgingNeverLost == [][ret'.op = "receive_keys_claim_response" => \A p \in DOMAIN ret'.val.created \cap ClaimPairs(wedged_devices) : ((NewDummies(p) # {} \/ p \in ClaimPairs(wedged_devices')) /\ Cardinality(NewDummies(p)) <= 1)]_vars

----------------------------------------------------------------------------
\* Verification events and their flow ids (specification SpecFlow).

RoomIds == {"!a:x", "!b:x"}
EventIds == {"$1", "$2"}
TransactionIds == {"t1", "t2"}
\* the variants of AnyMessageEvent the two matches name, and one of those
\* only the wildcard arm catches
MessageEventTypes == {"CallAnswer", "CallInvite", "CallHangup", "CallCandidates", "Reaction", "RoomEncrypted", "RoomMessageFeedback", "RoomRedaction", "Sticker", "RoomMessage", "KeyVerificationReady", "KeyVerificationStart", "KeyVerificationCancel", "KeyVerificationAccept", "KeyVerificationKey", "KeyVerificationMac", "KeyVerificationDone", "Custom"}
\* the variants of AnyToDeviceEvent the two matches name, and one of those
\* only the wildcard arm catches
ToDeviceEventTypes == {"Dummy", "RoomKey", "RoomKeyRequest", "ForwardedRoomKey", "RoomEncrypted", "KeyVerificationRequest", "KeyVerificationReady", "KeyVerificationStart", "KeyVerificationCancel", "KeyVerificationAccept", "KeyVerificationKey", "KeyVerificationMac", "KeyVerificationDone", "Custom"}
MsgTypes == {"m.text", "m.key.verification.request"}

\* AnyEvent::Room: a message event with its room, its own id, and in its
\* content the msgtype (of a room message) and the event it relates to
RoomEvents == [transport : {"Room"}, type : MessageEventTypes, room_id : RoomIds, event_id : EventIds, msgtype : MsgTypes, relates_to : EventIds]
\* AnyEvent::ToDevice: a to-device event with the transaction id of its content
ToDeviceEvents == [transport : {"ToDevice"}, type : ToDeviceEventTypes, transaction_id : TransactionIds]
AnyEvents == RoomEvents \cup ToDeviceEvents

\* FlowId::ToDevice(transaction_id)
FlowIdToDevice(transaction_id) == <<"ToDevice", transaction_id>>
\* FlowId::InRoom(room_id, event_id)
FlowIdInRoom(room_id, event_id) == <<"InRoom", room_id, event_id>>

\* the AnyVerificationContent of a key verification event: the variant named
\* after the event type, around the content
ContentOf(type, e) == Some([variant |-> type, content |-> e])

\* AnyEvent::verification_content
VerificationContent(e) ==
    IF e.transport = "Room"
    THEN IF e.type \in {"CallAnswer", "CallInvite", "CallHangup", "CallCandidates", "Reaction", "RoomEncrypted", "RoomMessageFeedback", "RoomRedaction", "Sticker"} THEN None
         ELSE IF e.type = "RoomMessage" THEN (IF e.msgtype = "m.key.verification.request" THEN ContentOf("Request", e) ELSE None)
         ELSE IF e.type = "KeyVerificationReady" THEN ContentOf("Ready", e)
         ELSE IF e.type = "KeyVerificationStart" THEN ContentOf("Start", e)
         ELSE IF e.type = "KeyVerificationCancel" THEN ContentOf("Cancel", e)
         ELSE IF e.type = "KeyVerificationAccept" THEN ContentOf("Accept", e)
         ELSE IF e.type = "KeyVerificationKey" THEN ContentOf("Key", e)
         ELSE IF e.type = "KeyVerificationMac" THEN ContentOf("Mac", e)
         ELSE IF e.type = "KeyVerificationDone" THEN ContentOf("Done", e)
         ELSE None
    ELSE IF e.type \in {"Dummy", "RoomKey", "RoomKeyRequest", "ForwardedRoomKey", "RoomEncrypted"} THEN None
         ELSE IF e.type = "KeyVerificationRequest" THEN ContentOf("Request", e)
         ELSE IF e.type = "KeyVerificationReady" THEN ContentOf("Ready", e)
         ELSE IF e.type = "KeyVerificationStart" THEN ContentOf("Start", e)
         ELSE IF e.type = "KeyVerificationCancel" THEN ContentOf("Cancel", e)
         ELSE IF e.type = "KeyVerificationAccept" THEN ContentOf("Accept", e)
         ELSE IF e.type = "KeyVerificationKey" THEN ContentOf("Key", e)
         ELSE IF e.type = "KeyVerificationMac" THEN ContentOf("Mac", e)
         ELSE IF e.type = "KeyVerificationDone" THEN ContentOf("Done", e)
         ELSE None

\* impl TryFrom<&AnyMessageEvent> for FlowId
FlowIdTryFromMessageEvent(e) ==
    IF e.type \in {"CallAnswer", "CallInvite", "CallHangup", "CallCandidates", "Reaction", "RoomEncrypted", "RoomMessageFeedback", "RoomRedaction", "Sticker"} THEN ResultErr
    ELSE IF e.type = "KeyVerificationReady" THEN ResultOk(FlowIdInRoom(e.room_id, e.relates_to))
    ELSE IF e.type = "RoomMessage" THEN ResultOk(FlowIdInRoom(e.room_id, e.event_id))
    ELSE IF e.type \in {"KeyVerificationStart", "KeyVerificationCancel", "KeyVerificationAccept", "KeyVerificationKey", "KeyVerificationMac", "KeyVerificationDone"} THEN ResultOk(FlowIdInRoom(e.room_id, e.relates_to))
    ELSE ResultErr

\* impl TryFrom<&AnyToDeviceEvent> for FlowId
FlowIdTryFromToDeviceEvent(e) ==
    IF e.type \in {"Dummy", "RoomKey", "RoomKeyRequest", "ForwardedRoomKey", "RoomEncrypted"} THEN ResultErr
    ELSE IF e.type \in {"KeyVerificationRequest", "KeyVerificationReady", "KeyVerificationStart", "KeyVerificationCancel", "KeyVerificationAccept", "KeyVerificationKey", "KeyVerificationMac", "KeyVerificationDone"} THEN ResultOk(FlowIdToDevice(e.transaction_id))
    ELSE ResultErr

\* impl TryFrom<&AnyEvent<'_>> for FlowId
FlowIdTryFrom(e) == IF e.transport = "Room" THEN FlowIdTryFromMessageEvent(e) ELSE FlowIdTryFromToDeviceEvent(e)

call_verification_content ==
    /\ ret' = Ret("verification_content", input, VerificationContent(input))
    /\ UNCHANGED helper_frame

call_flow_id_try_from ==
    /\ ret' = Ret("flow_id_try_from", input, FlowIdTryFrom(input))
    /\ UNCHANGED helper_frame

InitFlow == InitHelper /\ input \in AnyEvents

NextFlow ==
    \/ call_verification_content
    \/ call_flow_id_try_from

SpecFlow == InitFlow /\ [][NextFlow]_vars

\* the flow an event with verification content belongs to: the transaction
\* id of a to-device event; for an in-room event the room and the anchoring
\* request event, which is the request message itself or the event the
\* content relates to
FlowOf(e) == IF e.transport = "ToDevice" THEN FlowIdToDevice(e.transaction_id) ELSE FlowIdInRoom(e.room_id, IF e.type = "RoomMessage" THEN e.event_id ELSE e.relates_to)

\* a flow id is derived exactly when the event carries verification content
C39_OkIffContent == ret.op = "flow_id_try_from" => (ret.val.ok <=> VerificationContent(ret.arg).some)

\* the events of one flow map to equal flow ids, the id of their flow
C39_OneIdPerFlow == (ret.op = "flow_id_try_from" /\ VerificationContent(ret.arg).some) => (ret.val = ResultOk(FlowOf(ret.arg)) /\ \A e \in AnyEvents : (VerificationContent(e).some /\ FlowOf(e) = FlowOf(ret.arg)) => FlowIdTryFrom(e) = ret.val)

\* C39: FlowId::try_from of a room or to-device event returns Ok exactly
\* when verification_content of the event returns Some, and all events of one
\* flow map to equal flow ids: to-device events to their transaction id,
\* in-room events to (room id, id of the anchoring request event), the
\* request message to its own event id.
C39_FlowIdOfVerificationEvents == C39_OkIffContent /\ C39_OneIdPerFlow

----------------------------------------------------------------------------
\* Reads at the end of the stream (specification SpecAttachment).

\* once a read of the decryptor has returned 0 at the end of the ciphertext
\* after a successful hash check, every further read returns 0 and does not
\* panic
C40_DecryptorEndStable == [][attachment.stage = "done" => (attachment'.stage = "done" /\ ret'.op = "decryptor_read" /\ ret'.val = 0)]_vars

\* the hash finish() would return from a state of the encryptor
FinishHash(a) == OrInsertHash(a.hashes, Digest(a.sha))

\* a read of the encryptor at the end of its input does not change the hash
\* that finish() returns
C40_EncryptorEndStable == [][(attachment.stage = "encrypting" /\ attachment.read = Len(attachment.data) /\ ret'.op = "encryptor_read" /\ attachment'.stage = "encrypting") => FinishHash(attachment') = FinishHash(attachment)]_vars

\* C40: the end of the stream is stable: after AttachmentDecryptor::read has
\* returned Ok(0) following a successful hash check, every further read of
\* the decryptor returns Ok(0) and does not panic; and further reads of an
\* AttachmentEncryptor at the end of its input do not change the hash that
\* finish() returns.
C40_EndOfStreamStable == C40_DecryptorEndStable /\ C40_EncryptorEndStable

====
